---- MODULE Spec2Model ----
(***************************************************************************)
(* quickstep: a Bf-tree style key/value store.                             *)
(*                                                                         *)
(* The module holds two state machines.                                    *)
(*                                                                         *)
(*  Spec      one client driving one QuickStep instance: transactions      *)
(*            (tx, put, get, delete, commit, abort), leaf splits and       *)
(*            merges, WAL checkpoints, and stop/crash followed by          *)
(*            QuickStep::new with WAL replay.  Release build: the          *)
(*            debug_assert! lines are not compiled in.                     *)
(*  SpecLock  several threads racing on the lock word of one mapping-      *)
(*            table entry, one atomic memory access per step.              *)
(*                                                                         *)
(* A leaf is modelled at the level of its slot array and its heap cells:   *)
(* slots are the KVMeta words in slot order, heap maps a byte offset to    *)
(* the record stored there.  All user keys are one byte long and all       *)
(* values are ValLen bytes long, so a heap cell is one record.  Indices    *)
(* into the slot array are the code's (0-based).                           *)
(***************************************************************************)
EXTENDS Integers, Sequences, FiniteSets, TLC

(* ------------------------------ bounds -------------------------------- *)
\* operations (put, get, delete, merge) issued by the client in one run
MaxOps == 3
\* transactions started in one run
MaxTx == 2
\* stop/crash + reopen cycles in one run
MaxReopen == 1
\* threads of SpecLock
MaxThreads == 3
\* iterations of a spin loop explored before the loop gives up (SpecLock)
MaxSpin == 2

(* ----------------------- constants of the code ------------------------ *)
LeafPageBytes == 4096
NodeMetaBytes == 16
KVMetaBytes == 8
AUTO_MERGE_MIN_ENTRIES == 3
SPIN_RETRIES == 14
WRITE_LOCK_STATE == 16383
GROUP_HEADER_LEN == 13
MANIFEST_LEN == 32
MAX_KEY_LENGTH == 64
INLINE_BUFFER_LEN == 4072
LEAF_CHILD_BYTES == 6
BPKVMetaBytes == 4
LeafPageWords == 512
\* u64::MAX in the code; any value that is no page id serves
TXN_META_PAGE_ID == 0 - 1

(* --------------------------- configuration ---------------------------- *)
\* QuickStepConfig: capacity of the mapping table, log2 of the cache size,
\* and the three WAL thresholds set through with_wal_thresholds
leaf_upper_bound == 256
cache_size_lg == 14
wal_leaf_checkpoint_threshold == 4
wal_global_record_threshold == 5
wal_global_byte_threshold == 524288

\* length in bytes of every value the client writes
ValLen == 1500

KeyBytes == {1, 2, 255}
Keys == {<<b>> : b \in KeyBytes}
Fills == {1, 2}
MkVal(fill) == [len |-> ValLen, fill |-> fill]
Vals == {MkVal(f) : f \in Fills}
EmptyVal == [len |-> 0, fill |-> 0]
\* Option<&[u8]>::None of the read path
NoVal == [len |-> 0 - 1, fill |-> 0]
\* no error
None == "None"
\* bookkeeping of the properties: nothing is known about the key
Unknown == [len |-> 0 - 2, fill |-> 0]

\* a let binding: v is computed once and handed to the body F
Let(v, F(_)) == F(v)

Min(S) == CHOOSE x \in S : \A y \in S : x <= y
Max(S) == CHOOSE x \in S : \A y \in S : x >= y

(* ------------------------- byte-string order -------------------------- *)
\* Ord for [u8]: lexicographic, a proper prefix sorts first
\* the positions at which two byte strings differ, up to the shorter length
differ_at(a, b) ==
    {i \in 1..(IF Len(a) < Len(b) THEN Len(a) ELSE Len(b)) : a[i] # b[i]}

\* Ord of byte slices: the first differing byte decides, then the length
KeyCmp(a, b) ==
    IF differ_at(a, b) = {}
    THEN (IF Len(a) < Len(b) THEN -1 ELSE IF Len(a) > Len(b) THEN 1 ELSE 0)
    ELSE LET i == CHOOSE j \in differ_at(a, b) : \A k \in differ_at(a, b) : j <= k
         IN IF a[i] < b[i] THEN -1 ELSE 1

common_prefix_len(a, b) ==
    IF differ_at(a, b) = {}
    THEN (IF Len(a) < Len(b) THEN Len(a) ELSE Len(b))
    ELSE (CHOOSE j \in differ_at(a, b) : \A k \in differ_at(a, b) : j <= k) - 1

starts_with(key, prefix) ==
    /\ Len(prefix) <= Len(key)
    /\ SubSeq(key, 1, Len(prefix)) = prefix

strip_prefix(key, prefix) == SubSeq(key, Len(prefix) + 1, Len(key))

get_lookahead(key_suffix) ==
    LET b0 == IF Len(key_suffix) >= 1 THEN key_suffix[1] ELSE 0
        b1 == IF Len(key_suffix) >= 2 THEN key_suffix[2] ELSE 0
    IN b0 * 256 + b1

(* ------------------------------ KVMeta -------------------------------- *)
KVMeta_new(key_size, val_size, offset, typ, is_fence, lookahead) ==
    [key_size |-> key_size, val_size |-> val_size, offset |-> offset,
     typ |-> typ, fence |-> is_fence, la |-> lookahead]

is_dirty(typ) ==
    CASE typ = "Insert" -> TRUE
      [] typ = "Tombstone" -> TRUE
      [] typ = "Cache" -> TRUE
      [] typ = "Phantom" -> TRUE

exists(typ) ==
    CASE typ = "Insert" -> TRUE
      [] typ = "Cache" -> TRUE
      [] typ = "Tombstone" -> TRUE
      [] typ = "Phantom" -> TRUE

set_record_type(kv, typ) == [kv EXCEPT !.typ = typ]

(* ----------------------------- NodeMeta ------------------------------- *)
\* a leaf image: header fields, slot array, heap cells
record_count(n) == Len(n.slots)
get_kv_meta(n, i) == n.slots[i + 1]
get_stored_key_from_meta(n, kv) == n.heap[kv.offset].key
get_val_from_meta(n, kv) == n.heap[kv.offset].val

\* bytes no slot points at can no longer be read: they are dropped
live_cells(n) ==
    [n EXCEPT !.heap = [o \in {n.slots[i].offset : i \in 1..Len(n.slots)} |-> n.heap[o]]]

reset_header(n, page_id, disk_addr) ==
    [page_id |-> page_id, leaf |-> disk_addr, slots |-> <<>>, heap |-> n.heap]

install_fences(n, lower, upper) ==
    LET upper_offset == LeafPageBytes - Len(upper)
        lower_offset == upper_offset - Len(lower)
        lower_meta == KVMeta_new(Len(lower), 0, lower_offset, "Cache", TRUE, 0)
        upper_meta == KVMeta_new(Len(upper), 0, upper_offset, "Cache", TRUE, 0)
    IN [n EXCEPT !.slots = <<lower_meta, upper_meta>>,
                 !.heap = (upper_offset :> [key |-> upper, val |-> EmptyVal])
                          @@ (lower_offset :> [key |-> lower, val |-> EmptyVal])]

fence_bounds(n) ==
    <<get_stored_key_from_meta(n, get_kv_meta(n, 0)),
      get_stored_key_from_meta(n, get_kv_meta(n, record_count(n) - 1))>>

reset_user_entries_with_fences(n, lower, upper) == install_fences(n, lower, upper)

reset_user_entries(n) ==
    IF record_count(n) <= 2 THEN n
    ELSE reset_user_entries_with_fences(n, fence_bounds(n)[1], fence_bounds(n)[2])

ensure_fence_keys(n) ==
    IF record_count(n) >= 2 THEN n ELSE install_fences(n, <<0>>, <<255>>)

format_leaf(n, page_id, disk_addr) ==
    ensure_fence_keys(reset_header(n, page_id, disk_addr))

get_node_prefix(n) ==
    LET low == fence_bounds(n)[1]
    IN SubSeq(low, 1, common_prefix_len(low, fence_bounds(n)[2]))

RECURSIVE binary_search_loop(_, _, _, _)
binary_search_loop(n, key_suffix, lower, upper) ==
    IF lower > upper THEN [ok |-> FALSE, idx |-> lower]
    ELSE LET mid == lower + ((upper - lower) \div 2)
             mid_kv == get_kv_meta(n, mid)
             target == get_lookahead(key_suffix)
             ord == IF target < mid_kv.la THEN -1
                    ELSE IF target > mid_kv.la THEN 1
                    ELSE KeyCmp(key_suffix, get_stored_key_from_meta(n, mid_kv))
         IN IF ord = 0 THEN [ok |-> TRUE, idx |-> mid]
            ELSE IF ord < 0
                 THEN IF mid = 0 THEN [ok |-> FALSE, idx |-> lower]
                      ELSE binary_search_loop(n, key_suffix, lower, mid - 1)
            ELSE binary_search_loop(n, key_suffix, mid + 1, upper)

binary_search(n, key_suffix) ==
    IF record_count(n) <= 2 THEN [ok |-> FALSE, idx |-> 1]
    ELSE LET lower == IF get_kv_meta(n, 0).fence THEN 1 ELSE 0
             top == record_count(n) - 1
             upper == IF get_kv_meta(n, top).fence
                      THEN (IF top = 0 THEN 0 ELSE top - 1)
                      ELSE top
         IN binary_search_loop(n, key_suffix, lower, upper)

find_min_offset(n) == Min({n.slots[i].offset : i \in 1..Len(n.slots)})

\* bytes that are no record any more
Garbage == [key |-> <<>>, val |-> [len |-> 0 - 1, fill |-> 0]]
cell_len(c) == Len(c.key) + (IF c.val.len < 0 THEN 0 ELSE c.val.len)

\* every slot below the erased record moves up by its length, but only
\* `len` bytes starting at the lowest offset are copied up: the lowest
\* record arrives whole when it is no longer than the erased one, and
\* every record the copied bytes land on is overwritten
erase_kv_in_buffer(n, kv) ==
    LET len == kv.key_size + kv.val_size
        target_offset == kv.offset
        below == {i \in 1..Len(n.slots) : n.slots[i].offset < target_offset}
        min_offset == IF below = {} THEN target_offset
                      ELSE Min({n.slots[i].offset : i \in below})
        moved == [i \in 1..Len(n.slots) |->
                    IF i \in below
                    THEN [n.slots[i] EXCEPT !.offset = n.slots[i].offset + len]
                    ELSE n.slots[i]]
        dst == min_offset + len
        hit(o) == o < dst + len /\ o + cell_len(n.heap[o]) > dst
    IN [n EXCEPT !.slots = moved,
                 !.heap = IF min_offset = target_offset THEN n.heap
                          ELSE [o \in DOMAIN n.heap \cup {dst} |->
                                  IF o = dst
                                  THEN IF cell_len(n.heap[min_offset]) <= len
                                       THEN n.heap[min_offset] ELSE Garbage
                                  ELSE IF hit(o) THEN Garbage ELSE n.heap[o]]]

shift_meta_left(n, idx) ==
    [n EXCEPT !.slots = SubSeq(n.slots, 1, idx) \o SubSeq(n.slots, idx + 2, Len(n.slots))]

remove_entry(n, idx) ==
    IF idx >= record_count(n) THEN [ok |-> FALSE, node |-> n]
    ELSE IF get_kv_meta(n, idx).fence THEN [ok |-> FALSE, node |-> n]
    ELSE [ok |-> TRUE,
          node |-> live_cells(shift_meta_left(erase_kv_in_buffer(n, get_kv_meta(n, idx)), idx))]

remove_entry_at(n, idx) == remove_entry(n, idx).node

remove_key_physical(n, key) ==
    Let(get_node_prefix(n), LAMBDA prefix :
        IF ~starts_with(key, prefix) THEN [ok |-> FALSE, node |-> n]
        ELSE Let(binary_search(n, strip_prefix(key, prefix)), LAMBDA found :
                 IF found.ok THEN remove_entry(n, found.idx)
                 ELSE [ok |-> FALSE, node |-> n]))

mark_entry_tombstone(n, idx) ==
    LET kv == get_kv_meta(n, idx)
    IN IF kv.fence \/ kv.typ = "Tombstone" THEN [ok |-> FALSE, node |-> n]
       ELSE [ok |-> TRUE,
             node |-> [n EXCEPT !.slots[idx + 1] = set_record_type(kv, "Tombstone")]]

mark_tombstone(n, key) ==
    Let(get_node_prefix(n), LAMBDA prefix :
        IF ~starts_with(key, prefix) THEN [ok |-> FALSE, node |-> n]
        ELSE Let(binary_search(n, strip_prefix(key, prefix)), LAMBDA found :
                 IF found.ok THEN mark_entry_tombstone(n, found.idx)
                 ELSE [ok |-> FALSE, node |-> n]))

\* the update branch for a value of another length erases the record,
\* returns InsufficientSpace when the new one does not fit and otherwise
\* ends in KVMeta::set_val_size, which is todo!(): panic is set.  In the
\* subtraction alloc_ptr - new_size a debug build panics on underflow and
\* a release build wraps to an offset that is not below meta_end
try_put_with_suffix(n, key_suffix, val) ==
    Let(binary_search(n, key_suffix), LAMBDA found :
       IF found.ok
       THEN LET target_kv == get_kv_meta(n, found.idx)
                below == {i \in 1..Len(n.slots) : n.slots[i].offset < target_kv.offset}
                alloc_ptr == (IF below = {} THEN target_kv.offset
                              ELSE Min({n.slots[i].offset : i \in below}))
                             + target_kv.key_size + target_kv.val_size
                new_offset == alloc_ptr - (Len(key_suffix) + val.len)
                meta_end == (record_count(n) + 1) * KVMetaBytes
            IN IF target_kv.val_size = val.len
               THEN [ok |-> TRUE, panic |-> FALSE,
                     node |-> [n EXCEPT !.heap[target_kv.offset].val = val]]
               ELSE IF new_offset >= 0 /\ new_offset < meta_end
               THEN [ok |-> FALSE, panic |-> FALSE,
                     node |-> erase_kv_in_buffer(n, target_kv)]
               ELSE [ok |-> FALSE, panic |-> TRUE, node |-> n]
       ELSE LET size == Len(key_suffix) + val.len
                min_offset == find_min_offset(n)
                new_offset == min_offset - size
                meta_end == (record_count(n) + 2) * KVMetaBytes
                new_meta == KVMeta_new(Len(key_suffix), val.len, new_offset,
                                       "Insert", FALSE, get_lookahead(key_suffix))
            IN IF min_offset < size \/ new_offset < meta_end
               THEN [ok |-> FALSE, panic |-> FALSE, node |-> n]
               ELSE [ok |-> TRUE, panic |-> FALSE,
                     node |-> [n EXCEPT
                        !.slots = SubSeq(n.slots, 1, found.idx) \o <<new_meta>>
                                  \o SubSeq(n.slots, found.idx + 1, Len(n.slots)),
                        !.heap = (new_offset :> [key |-> key_suffix, val |-> val])
                                 @@ n.heap]])

try_put(n, key, val) ==
    try_put_with_suffix(n, strip_prefix(key, get_node_prefix(n)), val)

get(n, key) ==
    Let(binary_search(n, strip_prefix(key, get_node_prefix(n))), LAMBDA found :
        IF ~found.ok THEN NoVal
        ELSE LET target_kv == get_kv_meta(n, found.idx)
             IN IF exists(target_kv.typ) THEN get_val_from_meta(n, target_kv) ELSE NoVal)

\* LeafEntryIter: every slot, fences included, in slot order
entries(n) ==
    [i \in 1..Len(n.slots) |->
        [meta |-> n.slots[i],
         key_suffix |-> get_stored_key_from_meta(n, n.slots[i]),
         value |-> get_val_from_meta(n, n.slots[i])]]

user_entry_count(n) ==
    Cardinality({i \in 1..Len(n.slots) : exists(entries(n)[i].meta.typ)})

RECURSIVE replay_entries(_, _)
replay_entries(n, es) ==
    IF es = <<>> THEN [ok |-> TRUE, node |-> n]
    ELSE Let(try_put(n, Head(es).key, Head(es).value), LAMBDA r :
             IF r.ok THEN replay_entries(r.node, Tail(es))
             ELSE [ok |-> FALSE, node |-> r.node])

(* -------------------------- page_op.rs plans -------------------------- *)
LeafEntryOwned_from_entry(prefix, entry) ==
    [key |-> prefix \o entry.key_suffix, value |-> entry.value]

owned_entries(n) ==
    Let(SelectSeq(entries(n), LAMBDA e : ~e.meta.fence), LAMBDA es :
        [i \in 1..Len(es) |-> LeafEntryOwned_from_entry(get_node_prefix(n), es[i])])

\* a split plan that leaves the pivot entry out of the right half
LeafSplitPlan_drop_pivot(n) ==
    Let(owned_entries(n), LAMBDA live_entries :
        LET move_start == Len(live_entries) \div 2
        IN [pivot_key |-> live_entries[move_start + 1].key,
            left_entries |-> SubSeq(live_entries, 1, move_start),
            right_entries |-> SubSeq(live_entries, move_start + 2, Len(live_entries))])

LeafSplitPlan_from_node(n) ==
    Let(owned_entries(n), LAMBDA live_entries :
        LET move_start == Len(live_entries) \div 2
        IN [pivot_key |-> live_entries[move_start + 1].key,
            left_entries |-> SubSeq(live_entries, 1, move_start),
            right_entries |-> SubSeq(live_entries, move_start + 1, Len(live_entries))])

LeafSplitPlan_apply(plan, left, right) ==
    Let(replay_entries(reset_user_entries(left), plan.left_entries), LAMBDA l :
        IF ~l.ok THEN [ok |-> FALSE, left |-> l.node, right |-> right]
        ELSE Let(replay_entries(reset_user_entries(right), plan.right_entries), LAMBDA r :
                 [ok |-> r.ok, left |-> l.node, right |-> r.node]))

LeafMergePlan_from_nodes(left, right) == owned_entries(left) \o owned_entries(right)

LeafMergePlan_apply(plan, survivor, removed) ==
    Let(replay_entries(reset_user_entries(survivor), plan), LAMBDA s :
        IF ~s.ok THEN [ok |-> FALSE, survivor |-> s.node, removed |-> removed]
        ELSE [ok |-> TRUE, survivor |-> s.node, removed |-> reset_user_entries(removed)])

\* first pass of flush_dirty_entries: slots i.. of the cached node are
\* folded into the disk leaf; panic when the disk leaf refuses a record
RECURSIVE flush_scan(_, _, _, _)
flush_scan(node_meta, i, disk_leaf, tombstones) ==
    IF i >= record_count(node_meta)
    THEN [panic |-> FALSE, leaf |-> disk_leaf, tombstones |-> tombstones]
    ELSE LET kv == get_kv_meta(node_meta, i)
             suffix == get_stored_key_from_meta(node_meta, kv)
         IN IF kv.fence THEN flush_scan(node_meta, i + 1, disk_leaf, tombstones)
            ELSE IF kv.typ = "Tombstone"
            THEN flush_scan(node_meta, i + 1,
                    remove_key_physical(disk_leaf, get_node_prefix(node_meta) \o suffix).node,
                    Append(tombstones, i))
            ELSE IF is_dirty(kv.typ)
            THEN Let(try_put_with_suffix(disk_leaf, suffix,
                                         get_val_from_meta(node_meta, kv)), LAMBDA r :
                     IF r.ok THEN flush_scan(node_meta, i + 1, r.node, tombstones)
                     ELSE [panic |-> TRUE, leaf |-> disk_leaf, tombstones |-> tombstones])
            ELSE flush_scan(node_meta, i + 1, disk_leaf, tombstones)

\* second pass: the tombstoned slots leave the cached node, last first
RECURSIVE drop_tombstones(_, _)
drop_tombstones(node_meta, tombstones) ==
    IF tombstones = <<>> THEN node_meta
    ELSE drop_tombstones(remove_entry_at(node_meta, tombstones[Len(tombstones)]),
                         SubSeq(tombstones, 1, Len(tombstones) - 1))

flush_dirty_entries(node_meta, disk_leaf) ==
    Let(flush_scan(node_meta, 0, disk_leaf, <<>>), LAMBDA s :
        IF s.panic THEN [panic |-> TRUE, node |-> node_meta, leaf |-> disk_leaf]
        ELSE [panic |-> FALSE, node |-> drop_tombstones(node_meta, s.tombstones),
              leaf |-> s.leaf])

collect_user_records(n) == owned_entries(n)

(* ------------------------------- wal.rs ------------------------------- *)
WalRecord(page_id, key, value, lower_fence, upper_fence, kind, txn_id, op) ==
    [page_id |-> page_id, key |-> key, value |-> value, lower_fence |-> lower_fence,
     upper_fence |-> upper_fence, kind |-> kind, txn_id |-> txn_id, op |-> op]

record_size(r) ==
    CASE r.op = "Put" ->
            1 + 8 + 1 + 4 + 4 + 4 + 4 + Len(r.key) + r.value.len
              + Len(r.lower_fence) + Len(r.upper_fence)
      [] r.op = "Tombstone" ->
            1 + 8 + 1 + 4 + 4 + 4 + Len(r.key) + Len(r.lower_fence) + Len(r.upper_fence)
      [] OTHER -> 1 + 8 + 1

EmptyStats == [p \in {} |-> [count |-> 0, bytes |-> 0]]

append_record(wal, r) ==
    LET bytes_written == GROUP_HEADER_LEN + record_size(r)
        old == IF r.page_id \in DOMAIN wal.leaf_counts THEN wal.leaf_counts[r.page_id]
               ELSE [count |-> 0, bytes |-> 0]
    IN [records |-> Append(wal.records, r),
        total_records |-> wal.total_records + 1,
        leaf_counts |-> (r.page_id :> [count |-> old.count + 1,
                                        bytes |-> old.bytes + bytes_written])
                        @@ wal.leaf_counts,
        total_bytes |-> wal.total_bytes + bytes_written]

append_put(wal, page_id, key, value, lower_fence, upper_fence, kind, txn_id) ==
    append_record(wal, WalRecord(page_id, key, value, lower_fence, upper_fence,
                                 kind, txn_id, "Put"))

append_tombstone(wal, page_id, key, lower_fence, upper_fence, kind, txn_id) ==
    append_record(wal, WalRecord(page_id, key, EmptyVal, lower_fence, upper_fence,
                                 kind, txn_id, "Tombstone"))

append_txn_marker(wal, marker, kind, txn_id) ==
    append_record(wal, WalRecord(TXN_META_PAGE_ID, <<>>, EmptyVal, <<>>, <<>>,
                                 kind, txn_id, marker))

\* bytes of the groups of page p when rs[i..] is written group by group:
\* a group is a maximal run of consecutive records of one page
RECURSIVE group_bytes(_, _, _)
group_bytes(rs, i, p) ==
    IF i > Len(rs) THEN 0
    ELSE (IF rs[i].page_id # p THEN 0
          ELSE record_size(rs[i])
               + (IF i = 1 \/ rs[i - 1].page_id # p THEN GROUP_HEADER_LEN ELSE 0))
         + group_bytes(rs, i + 1, p)

rewrite_records(rs) ==
    [p \in {rs[i].page_id : i \in 1..Len(rs)} |->
        [count |-> Cardinality({i \in 1..Len(rs) : rs[i].page_id = p}),
         bytes |-> group_bytes(rs, 1, p)]]

RECURSIVE sum_bytes(_, _)
sum_bytes(stats, pages) ==
    IF pages = {} THEN 0
    ELSE LET p == CHOOSE q \in pages : TRUE
         IN stats[p].bytes + sum_bytes(stats, pages \ {p})

checkpoint_page(wal, page_id) ==
    IF \A i \in 1..Len(wal.records) : wal.records[i].page_id # page_id THEN wal
    ELSE LET kept == SelectSeq(wal.records, LAMBDA r : r.page_id # page_id)
             stats == rewrite_records(kept)
         IN [records |-> kept, total_records |-> Len(kept), leaf_counts |-> stats,
             total_bytes |-> sum_bytes(stats, DOMAIN stats)]

clear(wal) ==
    [records |-> <<>>, total_records |-> 0, leaf_counts |-> EmptyStats, total_bytes |-> 0]

should_checkpoint_page(wal, page_id, threshold) ==
    /\ page_id \in DOMAIN wal.leaf_counts
    /\ wal.leaf_counts[page_id].count >= threshold

\* max_by_key over a HashMap: any page of maximal byte count can come out
global_checkpoint_candidate(wal, total_record_threshold, total_byte_threshold) ==
    IF wal.total_records < total_record_threshold /\ wal.total_bytes < total_byte_threshold
    THEN {}
    ELSE LET pages == DOMAIN wal.leaf_counts \ {TXN_META_PAGE_ID}
         IN {p \in pages : \A q \in pages : wal.leaf_counts[q].bytes <= wal.leaf_counts[p].bytes}

\* WalManager::open on the file left behind: the records come back
WalManager_open(records) ==
    LET stats == rewrite_records(records)
    IN [records |-> records, total_records |-> Len(records), leaf_counts |-> stats,
        total_bytes |-> MANIFEST_LEN + sum_bytes(stats, DOMAIN stats)]

records_grouped(wal, page_id) == SelectSeq(wal.records, LAMBDA r : r.page_id = page_id)

(* --------------------------- wal.rs: the file -------------------------- *)
RECORD_TYPE_PUT == 0
RECORD_TYPE_TOMBSTONE == 1
RECORD_TYPE_TXN_BEGIN == 2
RECORD_TYPE_TXN_COMMIT == 3
RECORD_TYPE_TXN_ABORT == 4
GROUP_MARKER == 170
MANIFEST_MAGIC == <<87, 65, 76, 77>>
MANIFEST_VERSION == 1

\* to_le_bytes of an unsigned integer of w bytes; u64::MAX is written -1
RECURSIVE to_le_bytes(_, _)
to_le_bytes(x, w) ==
    IF w = 0 THEN <<>>
    ELSE IF x < 0 THEN <<255>> \o to_le_bytes(x, w - 1)
    ELSE <<x % 256>> \o to_le_bytes(x \div 256, w - 1)

RECURSIVE le_value(_)
le_value(bytes) ==
    IF bytes = <<>> THEN 0 ELSE Head(bytes) + 256 * le_value(Tail(bytes))

from_le_bytes(bytes) ==
    IF \A i \in 1..Len(bytes) : bytes[i] = 255 THEN 0 - 1 ELSE le_value(bytes)

\* bytes[a..b] of a Rust slice: offsets from 0, b excluded
Slice(bytes, a, b) == SubSeq(bytes, a + 1, b)

\* the bytes of a value and the value a byte string stands for
val_bytes(v) == [i \in 1..v.len |-> v.fill]
bytes_val(b) == [len |-> Len(b), fill |-> IF b = <<>> THEN 0 ELSE b[1]]

\* a WalEntryKind decoded without a look at the byte
kind_always_redo(byte) == "Redo"

WalEntryKind_as_byte(kind) == IF kind = "Undo" THEN 1 ELSE 0
WalEntryKind_from_byte(byte) == IF byte = 1 THEN "Undo" ELSE "Redo"

to_record_type(marker) ==
    CASE marker = "Begin" -> RECORD_TYPE_TXN_BEGIN
      [] marker = "Commit" -> RECORD_TYPE_TXN_COMMIT
      [] OTHER -> RECORD_TYPE_TXN_ABORT

from_record_type(tag) ==
    CASE tag = RECORD_TYPE_TXN_BEGIN -> "Begin"
      [] tag = RECORD_TYPE_TXN_COMMIT -> "Commit"
      [] OTHER -> "Abort"

\* the write_all calls of one record, in order
write_record_payload(record) ==
    CASE record.op = "Put" ->
            << <<RECORD_TYPE_PUT>>, <<WalEntryKind_as_byte(record.kind)>>,
               to_le_bytes(record.txn_id, 8),
               to_le_bytes(Len(record.key), 4), to_le_bytes(record.value.len, 4),
               to_le_bytes(Len(record.lower_fence), 4),
               to_le_bytes(Len(record.upper_fence), 4),
               record.key, val_bytes(record.value),
               record.lower_fence, record.upper_fence >>
      [] record.op = "Tombstone" ->
            << <<RECORD_TYPE_TOMBSTONE>>, <<WalEntryKind_as_byte(record.kind)>>,
               to_le_bytes(record.txn_id, 8),
               to_le_bytes(Len(record.key), 4),
               to_le_bytes(Len(record.lower_fence), 4),
               to_le_bytes(Len(record.upper_fence), 4),
               record.key, record.lower_fence, record.upper_fence >>
      [] OTHER ->
            << <<to_record_type(record.op)>>, <<WalEntryKind_as_byte(record.kind)>>,
               to_le_bytes(record.txn_id, 8) >>

RECURSIVE write_payloads(_)
write_payloads(records) ==
    IF records = <<>> THEN <<>>
    ELSE write_record_payload(Head(records)) \o write_payloads(Tail(records))

\* the write_all calls of one group
write_group(page_id, records) ==
    IF records = <<>> THEN <<>>
    ELSE << <<GROUP_MARKER>>, to_le_bytes(page_id, 8), to_le_bytes(Len(records), 4) >>
         \o write_payloads(records)

\* ---- the file: a byte string, and the calls a handler makes on it ----
SetLen(n) == [call |-> "set_len", at |-> n, bytes |-> <<>>]
WriteAt(at, bytes) == [call |-> "write", at |-> at, bytes |-> bytes]

\* the file after the calls, made one after the other.  File::set_len
\* cuts the file or fills it up with zero bytes, and a write past the end
\* fills the gap with zero bytes.  Byte by byte: the last call that
\* decides byte i is a write over it, or a set_len that cut the file below
\* it (what comes back after a cut is zero); the length is that of the
\* last set_len, or of the file, pushed out by the writes that follow
do_calls(file, calls) ==
    LET n == Len(calls)
        cuts == {j \in 1..n : calls[j].call = "set_len"}
        last_cut == IF cuts = {} THEN 0 ELSE Max(cuts)
        ends == {calls[j].at + Len(calls[j].bytes) : j \in (last_cut + 1)..n}
        len == Max({IF last_cut = 0 THEN Len(file) ELSE calls[last_cut].at} \cup ends)
        deciding(i) == {j \in 1..n :
                          IF calls[j].call = "set_len" THEN calls[j].at < i
                          ELSE i > calls[j].at /\ i <= calls[j].at + Len(calls[j].bytes)}
    IN [i \in 1..len |->
          IF deciding(i) = {}
          THEN IF i <= Len(file) THEN file[i] ELSE 0
          ELSE LET c == calls[Max(deciding(i))]
               IN IF c.call = "set_len" THEN 0 ELSE c.bytes[i - c.at]]

\* write_all of every chunk, one after the other, from offset at
RECURSIVE writes_from(_, _)
writes_from(at, chunks) ==
    IF chunks = <<>> THEN <<>>
    ELSE <<WriteAt(at, Head(chunks))>>
         \o writes_from(at + Len(Head(chunks)), Tail(chunks))

write_manifest(checkpoint_len) ==
    WriteAt(0, MANIFEST_MAGIC \o to_le_bytes(MANIFEST_VERSION, 4)
               \o to_le_bytes(checkpoint_len, 8) \o [i \in 1..16 |-> 0])

\* read_manifest: the stored checkpoint_len and the calls made to repair
\* a file that has no manifest
read_manifest(file) ==
    IF Len(file) < MANIFEST_LEN
    THEN [checkpoint_len |-> MANIFEST_LEN,
          calls |-> <<SetLen(MANIFEST_LEN), write_manifest(MANIFEST_LEN)>>]
    ELSE IF Slice(file, 0, 4) # MANIFEST_MAGIC
            \/ from_le_bytes(Slice(file, 4, 8)) # MANIFEST_VERSION
    THEN [checkpoint_len |-> MANIFEST_LEN, calls |-> <<write_manifest(MANIFEST_LEN)>>]
    ELSE [checkpoint_len |-> Max({from_le_bytes(Slice(file, 8, 16)), MANIFEST_LEN}),
          calls |-> <<>>]

\* the record that starts at bytes[idx], the type byte included: ok is
\* false where the code breaks out of the outer loop
read_record(bytes, idx, page_id) ==
    IF idx >= Len(bytes) \/ Len(bytes) - (idx + 1) < 1 + 8
    THEN [ok |-> FALSE, idx |-> idx, record |-> <<>>]
    ELSE
    LET record_type == bytes[idx + 1]
        entry_kind == WalEntryKind_from_byte(bytes[idx + 2])
        txn_id == from_le_bytes(Slice(bytes, idx + 2, idx + 10))
        at == idx + 10
        len(k) == from_le_bytes(Slice(bytes, at + 4 * k, at + 4 * k + 4))
    IN CASE record_type = RECORD_TYPE_TOMBSTONE ->
              IF Len(bytes) - at < 12 \/ Len(bytes) - (at + 12) < len(0) + len(1) + len(2)
              THEN [ok |-> FALSE, idx |-> idx, record |-> <<>>]
              ELSE LET k == at + 12
                       l == k + len(0)
                       u == l + len(1)
                   IN [ok |-> TRUE, idx |-> u + len(2),
                       record |-> WalRecord(page_id, Slice(bytes, k, l), EmptyVal,
                                            Slice(bytes, l, u), Slice(bytes, u, u + len(2)),
                                            entry_kind, txn_id, "Tombstone")]
         [] record_type = RECORD_TYPE_PUT ->
              IF Len(bytes) - at < 16
                 \/ Len(bytes) - (at + 16) < len(0) + len(1) + len(2) + len(3)
              THEN [ok |-> FALSE, idx |-> idx, record |-> <<>>]
              ELSE LET k == at + 16
                       v == k + len(0)
                       l == v + len(1)
                       u == l + len(2)
                   IN [ok |-> TRUE, idx |-> u + len(3),
                       record |-> WalRecord(page_id, Slice(bytes, k, v),
                                            bytes_val(Slice(bytes, v, l)),
                                            Slice(bytes, l, u), Slice(bytes, u, u + len(3)),
                                            entry_kind, txn_id, "Put")]
         [] record_type \in {RECORD_TYPE_TXN_BEGIN, RECORD_TYPE_TXN_COMMIT,
                             RECORD_TYPE_TXN_ABORT} ->
              [ok |-> TRUE, idx |-> at,
               record |-> WalRecord(page_id, <<>>, EmptyVal, <<>>, <<>>, entry_kind,
                                    txn_id, from_record_type(record_type))]
         [] OTHER -> [ok |-> FALSE, idx |-> idx, record |-> <<>>]

\* the inner loop of read_records: the records parsed so far are pushed
\* to the result one by one, before the group is known to be whole
RECURSIVE read_group(_, _, _, _, _, _)
read_group(bytes, idx, page_id, left, records, payload_bytes) ==
    IF left = 0
    THEN [ok |-> TRUE, idx |-> idx, records |-> records, payload_bytes |-> payload_bytes]
    ELSE Let(read_record(bytes, idx, page_id), LAMBDA r :
             IF ~r.ok
             THEN [ok |-> FALSE, idx |-> idx, records |-> records,
                   payload_bytes |-> payload_bytes]
             ELSE read_group(bytes, r.idx, page_id, left - 1, Append(records, r.record),
                             payload_bytes + record_size(r.record)))

\* the outer loop of read_records over bytes, the file after the manifest
RECURSIVE read_groups(_, _, _, _, _)
read_groups(bytes, idx, records, page_bytes, valid_idx) ==
    IF Len(bytes) - idx < GROUP_HEADER_LEN \/ bytes[idx + 1] # GROUP_MARKER
    THEN [records |-> records, page_bytes |-> page_bytes, valid_idx |-> valid_idx]
    ELSE LET page_id == from_le_bytes(Slice(bytes, idx + 1, idx + 9))
             n_records == from_le_bytes(Slice(bytes, idx + 9, idx + 13))
         IN Let(read_group(bytes, idx + 13, page_id, n_records, records, 0), LAMBDA g :
                IF ~g.ok
                THEN [records |-> g.records, page_bytes |-> page_bytes,
                      valid_idx |-> valid_idx]
                ELSE read_groups(bytes, g.idx, g.records,
                        (page_id :> ((IF page_id \in DOMAIN page_bytes
                                      THEN page_bytes[page_id] ELSE 0)
                                     + GROUP_HEADER_LEN + g.payload_bytes))
                        @@ page_bytes,
                        g.idx))

read_records(file) ==
    Let(read_groups(Slice(file, MANIFEST_LEN, Len(file)), 0, <<>>,
                    [p \in {} |-> 0], 0), LAMBDA r :
        [records |-> r.records, page_bytes |-> r.page_bytes,
         valid_len |-> MANIFEST_LEN + r.valid_idx])

(* ------------------------------ btree.rs ------------------------------ *)
BPNode_blank ==
    [count |-> 0, alloc_idx |-> INLINE_BUFFER_LEN - 1, lowest |-> -1, slots |-> <<>>]

\* slot idx of the node's buffer; a slot never written reads as zero bytes
bp_slot(node, idx) ==
    IF idx < Len(node.slots) THEN node.slots[idx + 1] ELSE [key |-> <<>>, child |-> 0]
get_key(node, idx) == bp_slot(node, idx).key
get_leaf_child(node, idx) == bp_slot(node, idx).child

space_left(node) == node.alloc_idx - BPKVMetaBytes * node.count + 1

\* a test that leaves the longest key out of the room it asks for
can_overflow_no_key(node, level) ==
    space_left(node) < BPKVMetaBytes + (IF level = 1 THEN LEAF_CHILD_BYTES ELSE 4)

can_overflow(node, level) ==
    space_left(node) < BPKVMetaBytes + MAX_KEY_LENGTH
                       + (IF level = 1 THEN LEAF_CHILD_BYTES ELSE 4)

will_underflow(node) == space_left(node) <= INLINE_BUFFER_LEN \div 2

reset_leaf_parent(node, lowest_child) ==
    [node EXCEPT !.count = 0, !.alloc_idx = INLINE_BUFFER_LEN - 1, !.lowest = lowest_child]

append_leaf_entry(node, key, child) ==
    LET needed == Len(key) + LEAF_CHILD_BYTES
    IN IF Len(key) > MAX_KEY_LENGTH THEN [err |-> "KeyTooLarge", node |-> node]
       ELSE IF space_left(node) < needed + BPKVMetaBytes \/ node.alloc_idx < needed
       THEN [err |-> "NodeFull", node |-> node]
       ELSE [err |-> None,
             node |-> [node EXCEPT
                !.alloc_idx = node.alloc_idx - needed,
                !.slots = IF node.count < Len(node.slots)
                          THEN [node.slots EXCEPT ![node.count + 1] =
                                    [key |-> key, child |-> child]]
                          ELSE Append(node.slots, [key |-> key, child |-> child]),
                !.count = node.count + 1]]

RECURSIVE append_leaf_entries(_, _)
append_leaf_entries(node, es) ==
    IF es = <<>> THEN [err |-> None, node |-> node]
    ELSE LET r == append_leaf_entry(node, Head(es).key, Head(es).child)
         IN IF r.err = None THEN append_leaf_entries(r.node, Tail(es)) ELSE r

bp_entries(node) == [i \in 1..node.count |-> bp_slot(node, i - 1)]

insert_leaf_entry_after_child(node, left_child, pivot_key, right_child) ==
    LET es == bp_entries(node)
        hits == {i \in 1..Len(es) : es[i].child = left_child}
    IN IF left_child # node.lowest /\ hits = {}
       THEN [err |-> "ParentChildMissing", node |-> node]
       ELSE LET insert_idx == IF left_child = node.lowest THEN 0 ELSE Min(hits)
                grown == SubSeq(es, 1, insert_idx)
                         \o <<[key |-> pivot_key, child |-> right_child]>>
                         \o SubSeq(es, insert_idx + 1, Len(es))
            IN append_leaf_entries(reset_leaf_parent(node, node.lowest), grown)

init_leaf_parent(node, left_child, right_child, pivot_key) ==
    IF Len(pivot_key) > MAX_KEY_LENGTH THEN [err |-> "KeyTooLarge", node |-> node]
    ELSE [err |-> None,
          node |-> [count |-> 1,
                    alloc_idx |-> INLINE_BUFFER_LEN - 1 - (Len(pivot_key) + LEAF_CHILD_BYTES),
                    lowest |-> left_child,
                    slots |-> <<[key |-> pivot_key, child |-> right_child]>>
                              \o SubSeq(node.slots, 2, Len(node.slots))]]

RECURSIVE bp_search_loop(_, _, _, _)
bp_search_loop(node, key, low, high) ==
    IF low >= high THEN low
    ELSE LET mid == low + (high - low) \div 2
         IN IF KeyCmp(get_key(node, mid), key) <= 0
            THEN bp_search_loop(node, key, mid + 1, high)
            ELSE bp_search_loop(node, key, low, mid)

bp_binary_search(node, key) ==
    LET low == bp_search_loop(node, key, 0, node.count)
    IN IF low = 0 THEN 0 ELSE low - 1

search_for_leaf(node, key) ==
    LET idx == bp_binary_search(node, key)
    IN IF KeyCmp(key, get_key(node, idx)) < 0 THEN node.lowest
       ELSE get_leaf_child(node, idx)

update_lock_points(node, level) ==
    [overflow_point |-> IF ~can_overflow(node, level) THEN "Inner" ELSE "Root",
     underflow_point |-> IF ~will_underflow(node) THEN "Inner" ELSE "Root"]

\* tree = [root |-> [level, id], next_free, nodes]; at most one inner level
try_read_traverse_leaf(tree, key) ==
    IF tree.root.level = 0
    THEN [page |-> tree.root.id, overflow_point |-> "Root", underflow_point |-> "Root"]
    ELSE LET node == tree.nodes[tree.root.id]
             points == update_lock_points(node, tree.root.level)
         IN [page |-> search_for_leaf(node, key),
             overflow_point |-> points.overflow_point,
             underflow_point |-> points.underflow_point]

read_traverse_leaf(tree, key) == try_read_traverse_leaf(tree, key)

\* WriteLockBundle: does it hold the root lock, and which nodes are locked
lock_from_point(tree, point) ==
    IF point = "Root"
    THEN [root_lock |-> TRUE,
          chain |-> IF tree.root.level = 0 THEN <<>> ELSE <<tree.root.id>>]
    ELSE [root_lock |-> FALSE, chain |-> <<tree.root.id>>]

write_lock(tree, point) == lock_from_point(tree, point)

promote_leaf_root(tree, left_child, right_child, pivot_key) ==
    LET node_id == tree.next_free
        r == init_leaf_parent(BPNode_blank, left_child, right_child, pivot_key)
    IN IF r.err # None THEN [err |-> r.err, tree |-> [tree EXCEPT !.next_free = node_id + 1]]
       ELSE [err |-> None,
             tree |-> [root |-> [level |-> 1, id |-> node_id],
                       next_free |-> node_id + 1,
                       nodes |-> (node_id :> r.node) @@ tree.nodes]]

debug_root_leaf_parent(tree) ==
    IF tree.root.level # 1 THEN [some |-> FALSE, pivots |-> <<>>, children |-> <<>>]
    ELSE LET node == tree.nodes[tree.root.id]
         IN [some |-> TRUE,
             pivots |-> [i \in 1..node.count |-> get_key(node, i - 1)],
             children |-> <<node.lowest>>
                          \o [i \in 1..node.count |-> get_leaf_child(node, i - 1)]]

(* ------------------------- the database state ------------------------- *)
\* A world w gathers the fields of QuickStep and of the running
\* QuickStepTx: disk (io_engine file), next_addr, wal, cache (tail and
\* pages of the mini-page arena), map_table (next_free, entries), tree
\* (inner_nodes), requested (wal_checkpoint_requested), next_txn_id, tx
\* (state, txn_id, undo_log, locks), and how the running call ended: err
\* is the QSError it returned, panic says that it panicked.
ZeroPage == [page_id |-> 0, leaf |-> 0, slots |-> <<>>, heap |-> [o \in {} |-> 0]]
NoLocks == [p \in {} |-> 0]
NoTx == [state |-> "None", txn_id |-> 0, undo_log |-> <<>>, locks |-> NoLocks]

Ok(w) == w.err = None /\ ~w.panic
Bind(w, F(_)) == IF Ok(w) THEN F(w) ELSE w
Fail(w, e) == [w EXCEPT !.err = e]

\* number of 64-bit words of the arena
buff_size == (2 ^ cache_size_lg) \div 8

\* the arena of a fresh instance: nothing allocated, nothing freed
MiniPageBuffer_empty == [tail |-> 0, head |-> 0, free |-> <<>>, pages |-> ZeroPage.heap]

\* MiniPageBuffer::alloc: the slot freed last is taken from the free list
\* of the size class (leaf pages are the only class in use), else the tail
\* advances while the arena has room
alloc(cache, size_in_words) ==
    IF cache.free # <<>>
    THEN [idx |-> cache.free[Len(cache.free)], some |-> TRUE,
          cache |-> [cache EXCEPT !.free = SubSeq(@, 1, Len(@) - 1)]]
    ELSE IF buff_size - cache.tail >= size_in_words
    THEN [idx |-> cache.tail, some |-> TRUE,
          cache |-> [cache EXCEPT !.tail = cache.tail + size_in_words]]
    ELSE [idx |-> 0, some |-> FALSE, cache |-> cache]

\* PageEntry::get_ref of the guard held on the page
node_ref(w, page) == w.map_table.entries[page]
get_meta_ref(w, page) == w.cache.pages[node_ref(w, page).addr]
get_meta_mut(w, page, n) == [w EXCEPT !.cache.pages[node_ref(w, page).addr] = n]

mark_hot(n) == n
set_identity(n, page_id, disk_addr) == [n EXCEPT !.page_id = page_id, !.leaf = disk_addr]

(* --------------------------- lock_manager.rs -------------------------- *)
\* LockSlot::new
LockSlot(mode) == [mode |-> mode, leaf |-> <<>>, borrowed |-> FALSE]

\* PageHandle::acquire; the debug_assert is compiled out of a release
\* build, and a handle taken on a slot that is borrowed is put down in
\* event.reborrow for the properties
PageHandle_acquire(w, page) ==
    IF w.tx.locks[page].borrowed THEN [w EXCEPT !.event.reborrow = Append(@, page)]
    ELSE [w EXCEPT !.tx.locks[page].borrowed = TRUE]

\* Drop for PageHandle
drop_PageHandle(w, page) ==
    IF page \in DOMAIN w.tx.locks THEN [w EXCEPT !.tx.locks[page].borrowed = FALSE] ELSE w

\* the handles a call holds in its locals are dropped when it returns
drop_handles(w) ==
    [w EXCEPT !.tx.locks = [p \in DOMAIN w.tx.locks |->
                               [w.tx.locks[p] EXCEPT !.borrowed = FALSE]]]

get_or_acquire_read_lock(w, page) ==
    IF page \in DOMAIN w.tx.locks THEN w
    ELSE [w EXCEPT !.tx.locks = (page :> LockSlot("Read")) @@ w.tx.locks]

get_upgrade_or_acquire_write_lock(w, page) ==
    PageHandle_acquire(
        IF page \in DOMAIN w.tx.locks THEN [w EXCEPT !.tx.locks[page].mode = "Write"]
        ELSE [w EXCEPT !.tx.locks = (page :> LockSlot("Write")) @@ w.tx.locks],
        page)

insert_write_lock(w, page) ==
    PageHandle_acquire(
        [w EXCEPT !.tx.locks = (page :> LockSlot("Write")) @@ w.tx.locks], page)

\* PageGuard.leaf: read from the file once, then served from the guard
load_leaf(w, page, addr) ==
    IF w.tx.locks[page].leaf = <<>>
    THEN [w EXCEPT !.tx.locks[page].leaf = <<w.disk[addr]>>]
    ELSE w
ensure_page(w, page, addr) == load_leaf(w, page, addr)
guard_leaf(w, page) == w.tx.locks[page].leaf[1]

\* the read of the leaf copy held by the guard
guard_get(w1, page, key) == [w |-> w1, val |-> get(guard_leaf(w1, page), key)]

PageGuard_get(w, page, key) ==
    LET node == node_ref(w, page)
    IN IF node.is_leaf
       THEN guard_get(ensure_page(w, page, node.addr), page, key)
       ELSE LET node_meta == get_meta_ref(w, page)
            IN Let(binary_search(node_meta,
                                 strip_prefix(key, get_node_prefix(node_meta))),
                   LAMBDA found :
                     IF found.ok
                     THEN LET kv == get_kv_meta(node_meta, found.idx)
                          IN [w |-> w,
                              val |-> IF exists(kv.typ)
                                      THEN get_val_from_meta(node_meta, kv)
                                      ELSE NoVal]
                     ELSE guard_get(ensure_page(w, page, node_meta.leaf), page, key))

\* a flush, kept for the properties: the page, its mini-page and its disk
\* leaf before, the disk leaf written, and the WAL as it is when the leaf
\* is written
FlushEvent(page, leaf_addr, node_meta, pre_leaf, leaf, wal_records) ==
    [page |-> page, leaf_addr |-> leaf_addr, pre_node |-> node_meta,
     pre_leaf |-> pre_leaf, post_leaf |-> leaf, wal |-> wal_records]

merge_to_disk(w, page) ==
    LET node_meta == get_meta_ref(w, page)
        leaf_addr == node_meta.leaf
    IN Let(flush_dirty_entries(node_meta, w.disk[leaf_addr]), LAMBDA f :
           IF f.panic THEN [w EXCEPT !.panic = TRUE]
           ELSE [get_meta_mut(w, page, f.node) EXCEPT
                   !.disk[leaf_addr] = f.leaf,
                   !.event.flush = Append(@, FlushEvent(page, leaf_addr, node_meta,
                                                        w.disk[leaf_addr], f.leaf,
                                                        w.wal.records))])

(* --------------------------- QuickStepTx ------------------------------ *)
tx_get(w, key) ==
    Let(read_traverse_leaf(w.tree, key).page, LAMBDA page :
        PageGuard_get(get_or_acquire_read_lock(w, page), page, key))

promote_leaf_to_mini_page(w, page, disk_addr) ==
    LET a == alloc(w.cache, LeafPageWords)
    IN IF ~a.some THEN Fail(w, "CacheExhausted")
       ELSE Let(load_leaf(w, page, disk_addr), LAMBDA w1 :
                [w1 EXCEPT
                  !.map_table.entries[page] = [is_leaf |-> FALSE, addr |-> a.idx],
                  !.cache = [a.cache EXCEPT
                               !.pages = (a.idx :> mark_hot(guard_leaf(w1, page)))
                                         @@ a.cache.pages]])

ensure_mini_page(w, page) ==
    IF node_ref(w, page).is_leaf
    THEN promote_leaf_to_mini_page(w, page, node_ref(w, page).addr)
    ELSE w

\* TryPutResult, with the promotion done on the way
try_put_with_promotion(w, page, key, val) ==
    Let(ensure_mini_page(w, page), LAMBDA w1 :
        IF ~Ok(w1) THEN [w |-> w1, res |-> "Err"]
        ELSE Let(try_put(get_meta_ref(w1, page), key, val), LAMBDA r :
                 IF r.panic THEN [w |-> [w1 EXCEPT !.panic = TRUE], res |-> "Err"]
                 ELSE IF r.ok
                 THEN [w |-> get_meta_mut(w1, page, r.node), res |-> "Success"]
                 ELSE [w |-> get_meta_mut(w1, page, r.node), res |-> "NeedsSplit"]))

existing_value(w, page, key) ==
    IF node_ref(w, page).is_leaf THEN get(w.disk[node_ref(w, page).addr], key)
    ELSE get(get_meta_ref(w, page), key)

collect_fence_keys(n) == fence_bounds(n)

leaf_snapshot(w, page) ==
    IF node_ref(w, page).is_leaf THEN collect_fence_keys(w.disk[node_ref(w, page).addr])
    ELSE fence_bounds(get_meta_ref(w, page))

\* a per-page checkpoint that prunes the log and flushes nothing
checkpoint_leaf_without_flush(w, page_id) ==
    IF ~should_checkpoint_page(w.wal, page_id, wal_leaf_checkpoint_threshold) THEN w
    ELSE Bind(ensure_mini_page(w, page_id),
              LAMBDA x : [x EXCEPT !.wal = checkpoint_page(x.wal, page_id)])

maybe_checkpoint_leaf(w, page_id) ==
    IF ~should_checkpoint_page(w.wal, page_id, wal_leaf_checkpoint_threshold) THEN w
    ELSE Bind(Bind(ensure_mini_page(w, page_id), LAMBDA x : merge_to_disk(x, page_id)),
              LAMBDA x : [x EXCEPT !.wal = checkpoint_page(x.wal, page_id)])

\* prefer picks among the pages of equal, maximal byte count
maybe_global_checkpoint(w, prefer) ==
    LET first == global_checkpoint_candidate(w.wal, wal_global_record_threshold,
                                             wal_global_byte_threshold)
        candidate == IF first # {} THEN first
                     ELSE IF w.requested THEN global_checkpoint_candidate(w.wal, 0, 0)
                     ELSE {}
    IN IF candidate = {} THEN w
       ELSE Let(IF prefer = "low" THEN Min(candidate) ELSE Max(candidate), LAMBDA page_id :
                drop_PageHandle(
                    Bind(Bind(ensure_mini_page(get_upgrade_or_acquire_write_lock(w, page_id),
                                               page_id),
                              LAMBDA x : merge_to_disk(x, page_id)),
                         LAMBDA x : [x EXCEPT !.wal = checkpoint_page(x.wal, page_id),
                                              !.requested = FALSE]),
                    page_id))

log_put_undo(w, page_id, key, undo_value) ==
    [w EXCEPT !.tx.undo_log = Append(@,
        IF undo_value # NoVal
        THEN [kind |-> "Restore", page_id |-> page_id, key |-> key, value |-> undo_value]
        ELSE [kind |-> "Remove", page_id |-> page_id, key |-> key, value |-> NoVal])]

log_delete_undo(w, page_id, key, value) ==
    IF value = NoVal THEN w
    ELSE [w EXCEPT !.tx.undo_log = Append(@,
            [kind |-> "Restore", page_id |-> page_id, key |-> key, value |-> value])]

\* an append_wal_put that writes the leaf before it logs
checkpoint_before_append(w, page_id, key, val, undo_value) ==
    Let(leaf_snapshot(w, page_id), LAMBDA fences :
    Let(append_put(w.wal, page_id, key, val, fences[1], fences[2],
                   "Redo", w.tx.txn_id), LAMBDA redo :
    Let(IF undo_value # NoVal
        THEN append_put(redo, page_id, key, undo_value, fences[1], fences[2],
                        "Undo", w.tx.txn_id)
        ELSE append_tombstone(redo, page_id, key, fences[1], fences[2],
                              "Undo", w.tx.txn_id), LAMBDA undo :
    Let(should_checkpoint_page(undo, page_id, wal_leaf_checkpoint_threshold), LAMBDA due :
    Bind(IF due THEN Bind(ensure_mini_page(w, page_id), LAMBDA x : merge_to_disk(x, page_id))
         ELSE w,
         LAMBDA x : log_put_undo([x EXCEPT !.wal = IF due THEN checkpoint_page(undo, page_id)
                                                   ELSE undo],
                                 page_id, key, undo_value))))))

append_wal_put(w, page_id, key, val, undo_value) ==
    Let(leaf_snapshot(w, page_id), LAMBDA fences :
    Let(append_put(w.wal, page_id, key, val, fences[1], fences[2],
                   "Redo", w.tx.txn_id), LAMBDA redo :
    Let(IF undo_value # NoVal
        THEN append_put(redo, page_id, key, undo_value, fences[1], fences[2],
                        "Undo", w.tx.txn_id)
        ELSE append_tombstone(redo, page_id, key, fences[1], fences[2],
                              "Undo", w.tx.txn_id), LAMBDA undo :
    maybe_checkpoint_leaf(log_put_undo([w EXCEPT !.wal = undo], page_id, key, undo_value),
                          page_id))))

(* ------------------------------ splitting ----------------------------- *)
\* what a split or a merge did, kept for the properties: the two pages
\* before and after, the pivot, and the tree after; flush lists the
\* flushes of the call, reborrow the pages it took a second handle on,
\* evict the outcome of every call of MiniPageBuffer::evict
NoEvent ==
    [kind |-> "none", flush |-> <<>>, reborrow |-> <<>>, evict |-> <<>>,
     left |-> 0, right |-> 0, pivot |-> <<>>,
     pre_left |-> ZeroPage, pre_right |-> ZeroPage,
     post_left |-> ZeroPage, post_right |-> ZeroPage,
     tree |-> [root |-> [level |-> 0, id |-> 0], next_free |-> 0, nodes |-> <<>>]]

StructEvent(kind, left, right, pivot, pre_left, pre_right, after) ==
    [kind |-> kind, flush |-> after.event.flush, reborrow |-> after.event.reborrow,
     evict |-> after.event.evict,
     left |-> left, right |-> right, pivot |-> pivot,
     pre_left |-> pre_left, pre_right |-> pre_right,
     post_left |-> get_meta_ref(after, left), post_right |-> get_meta_ref(after, right),
     tree |-> after.tree]

\* MiniPageBuffer::evict(map_table, io_engine, wal) as QuickStepTx calls
\* it.  The scan starts at the head; a mini-page whose mapping-table entry
\* the running transaction holds locked cannot be write-locked and is
\* passed over.  The first one that can is flushed, its entry goes back to
\* Leaf(disk_addr), its slot goes to the free list and the head moves past
\* it.  CacheExhausted when no slot can be freed.
evict(w) ==
    LET cand == {p \in DOMAIN w.map_table.entries :
                    /\ ~w.map_table.entries[p].is_leaf
                    /\ p \notin DOMAIN w.tx.locks}
        dist(p) == (w.map_table.entries[p].addr - w.cache.head) % buff_size
    IN IF cand = {}
       THEN Fail([w EXCEPT !.event.evict = Append(@, "CacheExhausted")], "CacheExhausted")
       ELSE LET page == CHOOSE p \in cand : \A q \in cand : dist(p) <= dist(q)
                slot == w.map_table.entries[page].addr
                leaf_addr == get_meta_ref(w, page).leaf
            IN Bind(merge_to_disk(w, page), LAMBDA x :
                    [x EXCEPT !.wal = checkpoint_page(x.wal, page),
                              !.map_table.entries[page] = [is_leaf |-> TRUE, addr |-> leaf_addr],
                              !.cache.free = Append(@, slot),
                              !.cache.head = (slot + LeafPageWords) % buff_size,
                              !.event.evict = Append(@, "Ok")])

\* the loop of new_mini_page: alloc, and evict while alloc returns None
RECURSIVE alloc_or_evict(_)
alloc_or_evict(w) ==
    LET a == alloc(w.cache, LeafPageWords)
    IN IF a.some THEN [w |-> w, a |-> a]
       ELSE Let(evict(w), LAMBDA x :
                IF Ok(x) THEN alloc_or_evict(x) ELSE [w |-> x, a |-> a])

\* NodeMeta::init on an arena slot, then ensure_fence_keys; the result
\* carries the page id of the new mini-page in new_page
new_mini_page(w) ==
    Let(alloc_or_evict(w), LAMBDA r :
    LET a == r.a
        disk_addr == r.w.next_addr
        page == r.w.map_table.next_free
        header == [page_id |-> page, leaf |-> disk_addr, slots |-> <<>>,
                   heap |-> ZeroPage.heap]
    IN IF ~Ok(r.w) THEN [w |-> r.w, new_page |-> 0]
       ELSE [new_page |-> page,
             w |-> insert_write_lock(
                [r.w EXCEPT
                   !.next_addr = disk_addr + 1,
                   !.map_table = [next_free |-> page + 1,
                                  entries |-> (page :> [is_leaf |-> FALSE, addr |-> a.idx])
                                              @@ r.w.map_table.entries],
                   !.cache = [a.cache EXCEPT
                                !.pages = (a.idx :> ensure_fence_keys(header))
                                          @@ a.cache.pages]],
                page)])

plan_leaf_split(w, page) == LeafSplitPlan_from_node(get_meta_ref(w, page))

\* the left page is copied byte for byte over the right one, header
\* included, before the identity of the right page is read back
apply_leaf_split(w, left, right, plan) ==
    Let(get_meta_mut(w, right, get_meta_ref(w, left)), LAMBDA copied :
    Let(get_meta_ref(copied, right), LAMBDA right_meta :
    Let(LeafSplitPlan_apply(plan, get_meta_ref(copied, left), right_meta), LAMBDA r :
    Let(get_meta_mut(get_meta_mut(copied, left, r.left), right, r.right), LAMBDA w1 :
        IF ~r.ok THEN Fail(w1, "SplitFailed")
        ELSE get_meta_mut(w1, right,
                          set_identity(r.right, right_meta.page_id, right_meta.leaf))))))

\* InnerWriteGuard::insert_entry_after_child on a parent of leaves
insert_entry_after_child(node, left_child, pivot_key, right_child) ==
    insert_leaf_entry_after_child(node, left_child, pivot_key, right_child)

insert_into_parents_after_leaf_split(w, lock_bundle, left_leaf, pivot_key, right_leaf) ==
    IF lock_bundle.chain = <<>>
    THEN Let(promote_leaf_root(w.tree, left_leaf, right_leaf, pivot_key), LAMBDA r :
             IF r.err = None THEN [w EXCEPT !.tree = r.tree]
             ELSE Fail([w EXCEPT !.tree = r.tree], r.err))
    ELSE LET node_id == lock_bundle.chain[Len(lock_bundle.chain)]
         IN Let(insert_entry_after_child(w.tree.nodes[node_id], left_leaf,
                                         pivot_key, right_leaf), LAMBDA r :
                IF r.err = None THEN [w EXCEPT !.tree.nodes[node_id] = r.node]
                ELSE Fail(w, r.err))

lock_bundle_for_split(w, key) ==
    write_lock(w.tree, read_traverse_leaf(w.tree, key).overflow_point)

\* returns the world and the page whose guard the caller goes on with;
\* LeafSplitPlan::from_node asserts that the leaf has a user entry
split_current_leaf(w, left, key) ==
    Let(lock_bundle_for_split(w, key), LAMBDA lock_bundle :
    Let(new_mini_page(w), LAMBDA n :
        IF ~Ok(n.w) THEN [w |-> n.w, page |-> left]
        ELSE IF owned_entries(get_meta_ref(n.w, left)) = <<>>
        THEN [w |-> [n.w EXCEPT !.panic = TRUE], page |-> left]
        ELSE Let(plan_leaf_split(n.w, left), LAMBDA split_plan :
             Let(Bind(apply_leaf_split(n.w, left, n.new_page, split_plan),
                      LAMBDA x : insert_into_parents_after_leaf_split(
                                    x, lock_bundle, left, split_plan.pivot_key, n.new_page)),
                 LAMBDA w2 :
                 [w |-> IF Ok(w2)
                        THEN drop_PageHandle(
                               [w2 EXCEPT !.event =
                                StructEvent("split", left, n.new_page, split_plan.pivot_key,
                                            get_meta_ref(n.w, left),
                                            get_meta_ref(n.w, n.new_page), w2)],
                               IF KeyCmp(key, split_plan.pivot_key) >= 0
                               THEN left ELSE n.new_page)
                        ELSE w2,
                  page |-> IF KeyCmp(key, split_plan.pivot_key) >= 0
                           THEN n.new_page ELSE left]))))

(* ------------------------------- merging ------------------------------ *)
\* BPTree::remove_child_after_merge: the separator that points at the
\* removed child leaves the node; some is set when no separator is left
remove_child_after_merge(node, survivor, removed) ==
    Let(SelectSeq(bp_entries(node), LAMBDA e : e.child # removed), LAMBDA kept :
        IF Len(kept) = node.count
        THEN [err |-> "ParentChildMissing", node |-> node,
              some |-> FALSE, child |-> survivor]
        ELSE Let(append_leaf_entries(reset_leaf_parent(node, node.lowest), kept), LAMBDA r :
                 [err |-> r.err, node |-> r.node, some |-> kept = <<>>, child |-> survivor]))

\* BPTree::demote_root_after_merge: the root becomes the remaining leaf
demote_root_after_merge(tree, child) ==
    [tree EXCEPT !.root = [level |-> 0, id |-> child]]

remove_parent_after_merge(w, lock_bundle, survivor, removed) ==
    IF lock_bundle.chain = <<>> THEN w
    ELSE LET node_id == lock_bundle.chain[Len(lock_bundle.chain)]
         IN Let(remove_child_after_merge(w.tree.nodes[node_id], survivor, removed),
                LAMBDA r :
                LET w1 == [w EXCEPT !.tree.nodes[node_id] = r.node]
                IN IF r.err # None THEN Fail(w, r.err)
                   ELSE IF r.some /\ lock_bundle.root_lock
                   THEN [w1 EXCEPT !.tree = demote_root_after_merge(w1.tree, r.child)]
                   ELSE w1)

merge_leaf_pages(w, left, right, lock_bundle) ==
    Let(Bind(ensure_mini_page(w, left), LAMBDA x : ensure_mini_page(x, right)), LAMBDA w1 :
        IF ~Ok(w1) THEN w1
        ELSE
        Let(get_meta_ref(w1, left), LAMBDA left_meta :
        Let(get_meta_ref(w1, right), LAMBDA right_meta :
        Let(LeafMergePlan_apply(LeafMergePlan_from_nodes(left_meta, right_meta),
                                left_meta, right_meta), LAMBDA r :
        Let(get_meta_mut(get_meta_mut(w1, left, r.survivor), right, r.removed), LAMBDA w2 :
            IF ~r.ok THEN Fail(w2, "MergeFailed")
            ELSE Let(remove_parent_after_merge(w2, lock_bundle, left, right), LAMBDA w3 :
                     IF Ok(w3)
                     THEN [w3 EXCEPT !.event =
                             StructEvent("merge", left, right, <<>>,
                                         left_meta, right_meta, w3)]
                     ELSE w3))))))

\* first_user_key: the key of the first slot that is not a fence
first_user_key(n) ==
    Let(owned_entries(n), LAMBDA es :
        IF es = <<>> THEN [some |-> FALSE, key |-> <<>>]
        ELSE [some |-> TRUE, key |-> es[1].key])

\* left_guard and right_guard are dropped when the call returns
debug_merge_leaves(w, left, right) ==
    Let(ensure_mini_page(get_upgrade_or_acquire_write_lock(
                            get_upgrade_or_acquire_write_lock(w, left), right), left),
        LAMBDA w1 :
        drop_PageHandle(drop_PageHandle(
            IF ~Ok(w1) THEN w1
            ELSE Let(first_user_key(get_meta_ref(w1, left)), LAMBDA merge_key :
                     IF ~merge_key.some THEN Fail(w1, "MergeFailed")
                     ELSE merge_leaf_pages(w1, left, right,
                            write_lock(w1.tree,
                                       read_traverse_leaf(w1.tree,
                                                          merge_key.key).underflow_point))),
            right), left))

try_auto_merge(w, page_id) ==
    Let(debug_root_leaf_parent(w.tree), LAMBDA snapshot :
        LET children == snapshot.children
            hits == {i \in 1..Len(children) : children[i] = page_id}
        IN IF ~snapshot.some \/ Len(children) < 2 \/ hits = {} THEN w
           ELSE LET idx == Min(hits)
                    neighbor_idx == IF idx + 1 <= Len(children) THEN idx + 1 ELSE idx - 1
                IN debug_merge_leaves(w, children[Min({idx, neighbor_idx})],
                                      children[Max({idx, neighbor_idx})]))

(* ------------------------- put, delete, tx end ------------------------ *)
RECURSIVE put_loop(_, _, _, _, _, _)
put_loop(w, page, key, val, undo_value, prefer) ==
    Let(try_put_with_promotion(w, page, key, val), LAMBDA t :
        IF t.res = "Err" THEN t.w
        ELSE IF t.res = "Success"
        THEN Bind(append_wal_put(t.w, page, key, val, undo_value),
                  LAMBDA x : maybe_global_checkpoint(x, prefer))
        ELSE Let(split_current_leaf(t.w, page, key), LAMBDA s :
                 IF ~Ok(s.w) THEN s.w
                 ELSE put_loop(s.w, s.page, key, val, undo_value, prefer)))

\* page_guard lives until the call returns
put(w, key, val, prefer) ==
    Let(read_traverse_leaf(w.tree, key).page, LAMBDA page :
    Let(get_upgrade_or_acquire_write_lock(w, page), LAMBDA w1 :
        drop_handles(put_loop(w1, page, key, val, existing_value(w1, page, key), prefer))))

\* w.res: the bool the call returns; page_guard lives until then
delete(w, key, prefer) ==
    Let(read_traverse_leaf(w.tree, key).page, LAMBDA page_id :
    Let(ensure_mini_page(get_upgrade_or_acquire_write_lock(w, page_id), page_id), LAMBDA w1 :
        drop_handles(
        IF ~Ok(w1) THEN w1
        ELSE
        Let(get_meta_ref(w1, page_id), LAMBDA meta :
        Let(get(meta, key), LAMBDA deleted_value :
        Let(mark_tombstone(meta, key), LAMBDA removed :
            IF deleted_value = NoVal \/ ~removed.ok THEN [w1 EXCEPT !.res = FALSE]
            ELSE
            Let(user_entry_count(removed.node), LAMBDA user_entries :
            Let(get_meta_mut(w1, page_id, removed.node), LAMBDA w2 :
            Let(leaf_snapshot(w2, page_id), LAMBDA fences :
            Let(append_tombstone(w2.wal, page_id, key, fences[1], fences[2],
                                 "Redo", w2.tx.txn_id), LAMBDA redo :
            Let(append_put(redo, page_id, key, deleted_value,
                           fences[1], fences[2], "Undo", w2.tx.txn_id), LAMBDA undo :
            Let(Bind(maybe_checkpoint_leaf(
                        log_delete_undo([w2 EXCEPT !.wal = undo], page_id, key,
                                        deleted_value), page_id),
                     LAMBDA x : maybe_global_checkpoint(x, prefer)), LAMBDA w4 :
            Let(IF user_entries <= AUTO_MERGE_MIN_ENTRIES
                THEN Bind(w4, LAMBDA x : try_auto_merge(x, page_id))
                ELSE w4, LAMBDA w5 :
                IF Ok(w5) THEN [w5 EXCEPT !.res = TRUE] ELSE w5)))))))))))))

apply_undo_action(w, action) ==
    Let(ensure_mini_page(get_upgrade_or_acquire_write_lock(w, action.page_id),
                         action.page_id), LAMBDA w1 :
        drop_PageHandle(
        IF ~Ok(w1) THEN w1
        ELSE Let(remove_key_physical(get_meta_ref(w1, action.page_id), action.key).node,
                 LAMBDA erased :
                 IF action.kind = "Remove" THEN get_meta_mut(w1, action.page_id, erased)
                 ELSE Let(try_put(erased, action.key, action.value), LAMBDA r :
                          IF r.ok THEN get_meta_mut(w1, action.page_id, r.node)
                          ELSE Fail(get_meta_mut(w1, action.page_id, erased),
                                    "SplitFailed"))),
        action.page_id))

RECURSIVE apply_undo_actions(_)
apply_undo_actions(w) ==
    IF w.tx.undo_log = <<>> THEN w
    ELSE Let(apply_undo_action([w EXCEPT !.tx.undo_log = SubSeq(@, 1, Len(@) - 1)],
                               w.tx.undo_log[Len(w.tx.undo_log)]), LAMBDA w1 :
             IF Ok(w1) THEN apply_undo_actions(w1) ELSE w1)

\* a commit that forgets to leave the Active state
commit_stays_active(w) ==
    IF w.tx.state # "Active" THEN w
    ELSE [w EXCEPT !.wal = append_txn_marker(w.wal, "Commit", "Redo", w.tx.txn_id),
                   !.tx.undo_log = <<>>]

commit_in_place(w) ==
    IF w.tx.state # "Active" THEN w
    ELSE [w EXCEPT !.wal = append_txn_marker(w.wal, "Commit", "Redo", w.tx.txn_id),
                   !.tx.undo_log = <<>>,
                   !.tx.state = "Committed"]

\* a failed roll-back is a panic (expect)
abort_in_place(w) ==
    IF w.tx.state # "Active" THEN w
    ELSE Let(apply_undo_actions(w), LAMBDA w1 :
             IF ~Ok(w1) THEN [w1 EXCEPT !.panic = TRUE]
             ELSE [w1 EXCEPT !.wal = append_txn_marker(w1.wal, "Abort", "Redo",
                                                       w1.tx.txn_id),
                             !.tx.undo_log = <<>>,
                             !.tx.state = "Aborted"])

\* Drop for QuickStepTx: a transaction still Active is rolled back; the
\* lock manager goes away with the transaction
drop_QuickStepTx(w) ==
    Let(IF w.tx.state = "Active" THEN abort_in_place(w) ELSE w, LAMBDA w1 :
        IF w1.panic THEN w1 ELSE [w1 EXCEPT !.tx = NoTx])

QuickStep_tx(w) ==
    [w EXCEPT !.next_txn_id = w.next_txn_id + 1,
              !.wal = append_txn_marker(w.wal, "Begin", "Redo", w.next_txn_id),
              !.tx = [state |-> "Active", txn_id |-> w.next_txn_id,
                      undo_log |-> <<>>, locks |-> NoLocks]]

(* --------------------------- QuickStep::new --------------------------- *)
\* latest marker of every transaction; some is false without markers
committed_txn_ids(txn_meta) ==
    LET ids == {txn_meta[i].txn_id : i \in 1..Len(txn_meta)}
        latest(id) == txn_meta[Max({i \in 1..Len(txn_meta) : txn_meta[i].txn_id = id})].op
    IN [some |-> txn_meta # <<>>, ids |-> {id \in ids : latest(id) = "Commit"}]

\* the records of one page folded into the BTreeMap of replay_wal
RECURSIVE replay_fold(_, _, _)
replay_fold(records, committed, acc) ==
    IF records = <<>> THEN acc
    ELSE LET record == Head(records)
         IN IF record.kind = "Undo" \/ (committed.some /\ record.txn_id \notin committed.ids)
            THEN replay_fold(Tail(records), committed, acc)
            ELSE replay_fold(Tail(records), committed,
                    [applied |-> TRUE, lower |-> record.lower_fence,
                     upper |-> record.upper_fence,
                     entries |->
                        IF record.op = "Tombstone"
                        THEN [k \in DOMAIN acc.entries \ {record.key} |-> acc.entries[k]]
                        ELSE (record.key :> record.value) @@ acc.entries])

\* BTreeMap iteration: ascending keys
RECURSIVE btree_map_iter(_)
btree_map_iter(map) ==
    IF DOMAIN map = {} THEN <<>>
    ELSE LET k == CHOOSE x \in DOMAIN map : \A y \in DOMAIN map : KeyCmp(x, y) <= 0
         IN <<[key |-> k, value |-> map[k]]>>
            \o btree_map_iter([j \in DOMAIN map \ {k} |-> map[j]])

\* MapTable::capacity and MapTable::has_entry: replay runs on the pages
\* the mapping table of the new instance holds, that is on the root page
capacity == leaf_upper_bound
has_entry(page_id) == page_id = 0

replay_page(w, page_id, committed) ==
    Let(replay_fold(records_grouped(w.wal, page_id), committed,
                    [applied |-> FALSE, lower |-> <<>>, upper |-> <<>>,
                     entries |-> [k \in {} |-> NoVal]]), LAMBDA acc :
        IF page_id >= capacity \/ ~has_entry(page_id) \/ ~acc.applied THEN w
        ELSE LET disk_addr == node_ref(w, page_id).addr
             IN Let(replay_entries(reset_user_entries_with_fences(w.disk[disk_addr],
                                                                  acc.lower, acc.upper),
                                   btree_map_iter(acc.entries)), LAMBDA r :
                    IF ~r.ok THEN [w EXCEPT !.panic = TRUE]
                    ELSE [w EXCEPT !.disk[disk_addr] = r.node]))

RECURSIVE replay_pages(_, _, _)
replay_pages(w, pages, committed) ==
    IF pages = {} \/ ~Ok(w) THEN w
    ELSE LET p == CHOOSE q \in pages : TRUE
         IN replay_pages(replay_page(w, p, committed), pages \ {p}, committed)

replay_wal(w) ==
    IF w.wal.records = <<>> THEN w
    ELSE LET committed == committed_txn_ids(records_grouped(w.wal, TXN_META_PAGE_ID))
             pages == {w.wal.records[i].page_id : i \in 1..Len(w.wal.records)}
                      \ {TXN_META_PAGE_ID}
         IN Bind(replay_pages(w, pages, committed),
                 LAMBDA x : [x EXCEPT !.wal = clear(x.wal)])

ensure_root_leaf_on_disk(w) ==
    IF record_count(w.disk[0]) >= 2 THEN w
    ELSE [w EXCEPT !.disk[0] = format_leaf(w.disk[0], 0, 0)]

init_leaf_entry(disk_addr) ==
    [next_free |-> 1, entries |-> (0 :> [is_leaf |-> TRUE, addr |-> disk_addr])]

BPTree_new == [root |-> [level |-> 0, id |-> 0], next_free |-> 1, nodes |-> NoEvent.tree.nodes]
set_leaf_root(tree, page) == [tree EXCEPT !.root = [level |-> 0, id |-> page]]

\* the instance built over the data file and the WAL file found on disk
QuickStep_new(file, wal_records) ==
    LET opened == [disk |-> file, next_addr |-> 0, wal |-> WalManager_open(wal_records),
                   cache |-> MiniPageBuffer_empty,
                   map_table |-> init_leaf_entry(0), tree |-> BPTree_new,
                   requested |-> FALSE, next_txn_id |-> 1, tx |-> NoTx,
                   err |-> None, panic |-> FALSE, res |-> FALSE, event |-> NoEvent]
    IN Bind(replay_wal(ensure_root_leaf_on_disk(opened)),
            LAMBDA x : [x EXCEPT !.tree = set_leaf_root(x.tree, 0)])

(* ------------------------------ buffer.rs ----------------------------- *)
\* NodeSize as its discriminant; usize::MAX, the None of a free-list head
NodeSizes == 0..6
size_in_words(d) == (2 ^ d) * 8
usize_MAX == 0 - 1

\* the arena is zeroed; mem holds the words written since
MiniPageBuffer_new(lg) ==
    [buff_size |-> (2 ^ lg) \div 8,
     free_lists |-> [d \in NodeSizes |-> usize_MAX],
     head |-> 0, tail |-> 0,
     mem |-> [i \in {} |-> 0]]

buffer_word(b, i) == IF i \in DOMAIN b.mem THEN b.mem[i] ELSE 0

\* compare_exchange_weak: may fail with the value unchanged
compare_exchange_weak(current_value, expected, spurious) ==
    current_value = expected /\ ~spurious

(* ============================== Spec ================================== *)
VARIABLES
    disk,           \* io_engine: the data file, disk address -> leaf image
    next_addr,      \* IoEngine.next_addr
    wal,            \* WalManager: records, leaf_counts, total_records, total_bytes
    cache,          \* MiniPageBuffer: tail, arena index -> leaf image
    map_table,      \* MapTable: next_free, page id -> (is_leaf, addr)
    tree,           \* BPTree: root, next_free, node id -> BPNode
    requested,      \* wal_checkpoint_requested
    next_txn_id,    \* QuickStep.next_txn_id
    tx,             \* the QuickStepTx in progress: state, txn_id, undo_log, locks
    crashed,        \* the process panicked and is gone
    last,           \* the last call of the client and what it returned
    event,          \* the split or merge done by the last call
    committed,      \* key -> value written by the last committed write
    pending,        \* key -> value written by the transaction in progress
    snap,           \* key -> value read back when the transaction began
    written,        \* key -> value of the last put, until a delete, abort or restart
    ever_put,       \* keys a put was ever issued for
    clean,          \* every transaction so far was committed, none was killed
    plain,          \* every call so far was a put, get or delete that returned Ok
    nops, ntx, nreopen,
    \* SpecLock
    entry,          \* the AtomicU64 of one mapping-table entry: state, pending
    thr,            \* per thread: pc, local copy of the entry, guard held, spins
    \* SpecWal
    wal_file,       \* the bytes of the WAL file
    wal_mem,        \* WalState of the open WalManager: records, counters, manifest
    wal_pre,        \* the file as it was when the last call began
    wal_calls,      \* the file calls the last call made, in order
    wal_log,        \* the last call, what it was given, and what went before
    \* SpecBuf
    buf,            \* a MiniPageBuffer: buff_size, free_lists, head, tail, arena words
    bthr,           \* per thread: the call it is in, its locals, what it returned
    released,       \* size class -> slots dealloc handed back, last first
    \* SpecOlc
    vlock,          \* version word of the root pointer and of one inner node
    othr,           \* per thread and word: the guard held and the version it read
    \* SpecRace
    rd,             \* a reading transaction: where its get is, and what it returned
    \* SpecSlot
    noderef         \* the NodeRef half of the mapping-table entry

dbvars == <<disk, next_addr, wal, cache, map_table, tree, requested, next_txn_id, tx,
            crashed, last, event, committed, pending, snap, written, ever_put, clean,
            plain, nops, ntx, nreopen>>
lockvars == <<entry, thr>>
walvars == <<wal_file, wal_mem, wal_pre, wal_calls, wal_log>>
bufvars == <<buf, bthr, released>>
olcvars == <<vlock, othr>>
morevars == <<olcvars, rd, noderef>>
vars == <<dbvars, lockvars, walvars, bufvars, morevars>>

World ==
    [disk |-> disk, next_addr |-> next_addr, wal |-> wal, cache |-> cache,
     map_table |-> map_table, tree |-> tree, requested |-> requested,
     next_txn_id |-> next_txn_id, tx |-> tx,
     err |-> None, panic |-> FALSE, res |-> FALSE, event |-> NoEvent]

\* what get(key) returns inside the running transaction / a fresh one
TxLookup(key) == tx_get(World, key).val
Lookup(key) == tx_get([World EXCEPT !.tx.locks = NoLocks], key).val

\* the world a call leaves behind; after a panic only the files remain
Install(w) ==
    /\ disk' = w.disk
    /\ wal' = w.wal
    /\ crashed' = w.panic
    /\ IF w.panic
       THEN /\ next_addr' = 0
            /\ cache' = MiniPageBuffer_empty
            /\ map_table' = init_leaf_entry(0)
            /\ tree' = BPTree_new
            /\ requested' = FALSE
            /\ next_txn_id' = 1
            /\ tx' = NoTx
            /\ event' = NoEvent
       ELSE /\ next_addr' = w.next_addr
            /\ cache' = w.cache
            /\ map_table' = w.map_table
            /\ tree' = w.tree
            /\ requested' = w.requested
            /\ next_txn_id' = w.next_txn_id
            /\ tx' = w.tx
            /\ event' = w.event

Call(op, key, val, w) ==
    [op |-> op, key |-> key, val |-> val,
     err |-> IF w.panic THEN "panic" ELSE w.err, ret |-> w.res]

AllKeys(v) == [k \in Keys |-> v]

\* the files QuickStep::new is first run over: none yet, or the ones a
\* session left that committed put(1), put(2) in one transaction and
\* checkpointed the root leaf on the second put
LoadBegin == QuickStep_tx(QuickStep_new((0 :> ZeroPage), <<>>))
LoadPut1 == put(LoadBegin, <<1>>, MkVal(1), "low")
LoadPut2 == put(LoadPut1, <<2>>, MkVal(1), "low")
LoadSession == commit_in_place(LoadPut2)

Files ==
    {[disk |-> (0 :> ZeroPage), wal |-> <<>>, content |-> AllKeys(NoVal)],
     [disk |-> LoadSession.disk, wal |-> LoadSession.wal.records,
      content |-> [k \in Keys |-> IF k \in {<<1>>, <<2>>} THEN MkVal(1) ELSE NoVal]]}

InitDbOn(file) ==
    Let(QuickStep_new(file.disk, file.wal), LAMBDA w :
       /\ disk = w.disk /\ next_addr = w.next_addr /\ wal = w.wal /\ cache = w.cache
       /\ map_table = w.map_table /\ tree = w.tree /\ requested = w.requested
       /\ next_txn_id = w.next_txn_id /\ tx = w.tx
       /\ crashed = FALSE
       /\ last = Call("new", <<>>, NoVal, w)
       /\ event = NoEvent
       /\ committed = file.content
       /\ pending = AllKeys(Unknown)
       /\ snap = file.content
       /\ written = AllKeys(Unknown)
       /\ ever_put = {k \in Keys : file.content[k] # NoVal}
       /\ clean = TRUE
       /\ plain = TRUE
       /\ nops = 0 /\ ntx = 0 /\ nreopen = 0)

InitDb == \E file \in Files : InitDbOn(file)

Running == ~crashed /\ tx.state = "Active" /\ nops < MaxOps

\* QuickStep::tx
TxBegin ==
    /\ ~crashed /\ tx.state = "None" /\ ntx < MaxTx
    /\ Let(QuickStep_tx(World), LAMBDA w :
          /\ Install(w)
          /\ last' = Call("tx", <<>>, NoVal, w))
    /\ snap' = [k \in Keys |-> Lookup(k)]
    /\ pending' = AllKeys(Unknown)
    /\ ntx' = ntx + 1
    /\ UNCHANGED <<committed, written, ever_put, clean, plain, nops, nreopen, lockvars, walvars, bufvars, morevars>>

\* QuickStepTx::put
Put(key, val, prefer) ==
    /\ Running
    /\ Let(put(World, key, val, prefer), LAMBDA w :
          /\ Install(w)
          /\ last' = Call("put", key, val, w)
          /\ pending' = (IF Ok(w) THEN [pending EXCEPT ![key] = val] ELSE pending)
          /\ written' = [written EXCEPT ![key] = IF Ok(w) THEN val ELSE Unknown]
          /\ plain' = (plain /\ Ok(w)))
    /\ ever_put' = ever_put \cup {key}
    /\ nops' = nops + 1
    /\ UNCHANGED <<committed, snap, clean, ntx, nreopen, lockvars, walvars, bufvars, morevars>>

\* QuickStepTx::get
Get(key) ==
    /\ Running
    /\ Let(tx_get(World, key), LAMBDA g :
          /\ Install(g.w)
          /\ last' = Call("get", key, g.val, g.w)
          /\ plain' = (plain /\ Ok(g.w)))
    /\ nops' = nops + 1
    /\ UNCHANGED <<committed, pending, snap, written, ever_put, clean, ntx, nreopen,
                   lockvars, walvars, bufvars, morevars>>

\* QuickStepTx::delete
Delete(key, prefer) ==
    /\ Running
    /\ Let(delete(World, key, prefer), LAMBDA w :
          /\ Install(w)
          /\ last' = Call("delete", key, NoVal, w)
          /\ pending' = (IF Ok(w) /\ w.res THEN [pending EXCEPT ![key] = NoVal]
                         ELSE pending)
          /\ plain' = (plain /\ Ok(w)))
    /\ written' = [written EXCEPT ![key] = Unknown]
    /\ nops' = nops + 1
    /\ UNCHANGED <<committed, snap, ever_put, clean, ntx, nreopen, lockvars, walvars, bufvars, morevars>>

\* QuickStepTx::debug_merge_leaves on two neighbouring children of the root
DebugMergeLeaves(i) ==
    /\ Running
    /\ Let(debug_root_leaf_parent(tree).children, LAMBDA children :
          /\ i + 1 <= Len(children)
          /\ Let(debug_merge_leaves(World, children[i], children[i + 1]), LAMBDA w :
                /\ Install(w)
                /\ last' = Call("merge", <<>>, NoVal, w)))
    /\ plain' = FALSE
    /\ nops' = nops + 1
    /\ UNCHANGED <<committed, pending, snap, written, ever_put, clean, ntx, nreopen,
                   lockvars, walvars, bufvars, morevars>>

\* QuickStepTx::commit; the transaction is dropped when commit returns
Commit ==
    /\ ~crashed /\ tx.state = "Active"
    /\ Let(drop_QuickStepTx(commit_in_place(World)), LAMBDA w :
          /\ Install(w)
          /\ last' = Call("commit", <<>>, NoVal, w))
    /\ committed' = [k \in Keys |-> IF pending[k] = Unknown THEN committed[k]
                                    ELSE pending[k]]
    /\ pending' = AllKeys(Unknown)
    /\ UNCHANGED <<snap, written, ever_put, clean, plain, nops, ntx, nreopen, lockvars, walvars, bufvars, morevars>>

\* QuickStepTx::abort, or the transaction dropped while Active
Abort ==
    /\ ~crashed /\ tx.state = "Active"
    /\ Let(drop_QuickStepTx(World), LAMBDA w :
          /\ Install(w)
          /\ last' = Call("abort", <<>>, NoVal, w))
    /\ written' = AllKeys(Unknown)
    /\ pending' = AllKeys(Unknown)
    /\ clean' = FALSE
    /\ UNCHANGED <<committed, snap, ever_put, plain, nops, ntx, nreopen, lockvars, walvars, bufvars, morevars>>

\* the background thread of QuickStep::new
CheckpointPoll ==
    /\ ~crashed /\ ~requested
    /\ \/ wal.total_records >= wal_global_record_threshold
       \/ wal.total_bytes >= wal_global_byte_threshold
    /\ requested' = TRUE
    /\ UNCHANGED <<disk, next_addr, wal, cache, map_table, tree, next_txn_id, tx, crashed,
                   last, event, committed, pending, snap, written, ever_put, clean,
                   plain, nops, ntx, nreopen, lockvars, walvars, bufvars, morevars>>

\* the process stops (killed if a transaction is running or after a
\* panic), and QuickStep::new runs again over the files; a reopen of the
\* database nothing was done to is left out
Reopen ==
    /\ nreopen < MaxReopen /\ ntx > 0
    /\ Let(QuickStep_new(disk, wal.records), LAMBDA w :
          /\ Install(w)
          /\ last' = Call(IF crashed \/ tx.state = "Active" THEN "restart_after_kill"
                          ELSE "restart", <<>>, NoVal, w)
          /\ clean' = (clean /\ ~crashed /\ tx.state = "None")
          /\ plain' = (plain /\ Ok(w)))
    /\ written' = AllKeys(Unknown)
    /\ nreopen' = nreopen + 1
    /\ UNCHANGED <<committed, pending, snap, ever_put, nops, ntx, lockvars, walvars, bufvars, morevars>>

\* the order in which the HashMap of per-page counters is walked decides
\* between pages of equal byte count; a call logs for one page, so two
\* pages tie only if some page has records in the log before the call
Prefer ==
    IF \E p \in DOMAIN wal.leaf_counts :
          p # TXN_META_PAGE_ID /\ wal.leaf_counts[p].count > 0
    THEN {"low", "high"} ELSE {"low"}

InitLockIdle == entry = [state |-> 0, pending |-> FALSE] /\ thr = <<>>

\* no WAL file is looked at on its own
InitWalIdle ==
    /\ wal_file = <<>> /\ wal_pre = <<>> /\ wal_calls = <<>>
    /\ wal_mem = [open |-> FALSE, state |-> clear(<<>>), manifest |-> MANIFEST_LEN]
    /\ wal_log = [op |-> "none", page |-> 0, before |-> <<>>, appended |-> <<>>,
                  only_appends |-> TRUE, killed |-> FALSE, n |-> 0, kills |-> 0]

\* no mini-page buffer is looked at on its own
InitBufIdle == buf = MiniPageBuffer_new(cache_size_lg) /\ bthr = <<>> /\ released = <<>>
InitOlcIdle == vlock = <<>> /\ othr = <<>>
InitRaceIdle == rd = [pc |-> "idle"]
InitRefIdle == noderef = [is_leaf |-> TRUE, addr |-> 0]
InitMoreIdle == InitOlcIdle /\ InitRaceIdle /\ InitRefIdle

Init == InitDb /\ InitLockIdle /\ InitWalIdle /\ InitBufIdle /\ InitMoreIdle

Next ==
    \/ TxBegin
    \/ \E key \in Keys, val \in Vals, prefer \in Prefer : Put(key, val, prefer)
    \/ \E key \in Keys : Get(key)
    \/ \E key \in Keys, prefer \in Prefer : Delete(key, prefer)
    \/ \E i \in 1..2 : DebugMergeLeaves(i)
    \/ Commit
    \/ Abort
    \/ CheckpointPoll
    \/ Reopen

Spec == Init /\ [][Next]_vars

(* ============================= SpecSize =============================== *)
\* put and get with keys and values of several lengths: keys of one
\* byte, of MAX_KEY_LENGTH and of MAX_KEY_LENGTH + 1 bytes, values of two
\* lengths that fit a leaf and one that is longer than a leaf.  Records
\* are only added here: the heap of a node is kept record by record, which
\* follows erase_kv_in_buffer for records of one length only.
ShortLen == 700
LongLen == 5000

KeyOfLen(n) == [i \in 1..n |-> 3]
SizedKeys == {<<1>>, <<2>>, KeyOfLen(MAX_KEY_LENGTH), KeyOfLen(MAX_KEY_LENGTH + 1)}
SizedVals == {[len |-> l, fill |-> 1] : l \in {ValLen, ShortLen, LongLen}}

ghostvars == <<committed, pending, snap, written, ever_put, clean, plain>>

\* QuickStepTx::put
PutSized(key, val) ==
    /\ Running
    /\ Let(put(World, key, val, "low"), LAMBDA w :
          /\ Install(w)
          /\ last' = Call("put", key, val, w))
    /\ nops' = nops + 1
    /\ UNCHANGED <<ghostvars, ntx, nreopen, lockvars, walvars, bufvars, morevars>>

\* QuickStepTx::get
GetSized(key) ==
    /\ Running
    /\ Let(tx_get(World, key), LAMBDA g :
          /\ Install(g.w)
          /\ last' = Call("get", key, g.val, g.w))
    /\ nops' = nops + 1
    /\ UNCHANGED <<ghostvars, ntx, nreopen, lockvars, walvars, bufvars, morevars>>

NextSize ==
    \/ TxBegin
    \/ \E key \in SizedKeys, val \in SizedVals : PutSized(key, val)
    \/ \E key \in SizedKeys : GetSized(key)
    \/ Commit

SpecSize == Init /\ [][NextSize]_vars

(* ============================= SpecRace =============================== *)
\* A second transaction that does one get while the transaction of the
\* database model runs.  QuickStepTx::get is two steps here: the
\* traversal of the inner nodes, which ends with the page id of a leaf and
\* no lock on anything, and then the read lock on that page and the search
\* of it.  The reader's own lock manager is empty; the read lock fails
\* while the other transaction holds the page for writing.
RdTraverse(key) ==
    /\ ~crashed /\ rd.pc = "idle"
    /\ rd' = [pc |-> "traversed", key |-> key,
              page |-> read_traverse_leaf(tree, key).page,
              before |-> committed[key], err |-> None, val |-> NoVal, holder |-> 0]
    /\ UNCHANGED <<dbvars, lockvars, walvars, bufvars, olcvars, noderef>>

\* MapTable::read_page_entry gives up after the retries when the entry is
\* write-locked
reader_lock_fails(page) == page \in DOMAIN tx.locks /\ tx.locks[page].mode = "Write"

RdSearch ==
    /\ ~crashed /\ rd.pc = "traversed"
    /\ rd' = IF reader_lock_fails(rd.page)
             THEN [rd EXCEPT !.pc = "done", !.err = "PageLockFail"]
             ELSE LET w == get_or_acquire_read_lock([World EXCEPT !.tx.locks = NoLocks],
                                                    rd.page)
                  IN [rd EXCEPT !.pc = "done",
                                !.val = PageGuard_get(w, rd.page, rd.key).val,
                                !.holder = read_traverse_leaf(tree, rd.key).page]
    /\ UNCHANGED <<dbvars, lockvars, walvars, bufvars, olcvars, noderef>>

NextRace ==
    \/ TxBegin
    \/ \E key \in Keys, val \in Vals : Put(key, val, "low")
    \/ Commit
    \/ \E key \in Keys : RdTraverse(key)
    \/ RdSearch

SpecRace == Init /\ [][NextRace]_vars

\* the get returned, and its key was committed-present from the traversal
\* to the search of the leaf
ReaderDone ==
    rd.pc = "done" /\ rd.err = None /\ rd.before # NoVal /\ committed[rd.key] # NoVal

Threads == 1..MaxThreads
Retries == Min({SPIN_RETRIES, MaxSpin})

PageEntry_state(e) == e.state
pending_write(e) == e.pending
\* the u16 is or-ed into the word: bits above the 14th reach the pending bit
set_state(e, new_state) ==
    [state |-> (new_state % 65536) % (WRITE_LOCK_STATE + 1),
     pending |-> e.pending \/ (((new_state % 65536) \div (WRITE_LOCK_STATE + 1)) % 2 = 1)]
set_pending_write(e, new) == [e EXCEPT !.pending = new]

Idle(t, hold) == thr[t].pc = "idle" /\ thr[t].hold = hold
Enter(t, pc) == thr' = [thr EXCEPT ![t].pc = pc, ![t].local = entry, ![t].i = 0]
Leave(t, hold) == thr' = [thr EXCEPT ![t].pc = "idle", ![t].hold = hold]
Reload(t) == thr' = [thr EXCEPT ![t].local = entry, ![t].i = @ + 1]

\* compare_exchange_weak: succeeds only on the expected word, may fail anyway
CasWeak(expected, ok) == ok /\ entry = expected
\* upgrade that does not wait for the other readers to leave
upgrade_ready_any(e) == PageEntry_state(e) >= 1
\* upgrade goes ahead when the thread is the only reader
upgrade_ready(e) == PageEntry_state(e) = 1

\* MapTable::read_page_entry
ReadStart(t) == Idle(t, "none") /\ Enter(t, "read") /\ UNCHANGED <<entry, dbvars, walvars, bufvars, morevars>>
ReadStep(t) ==
    /\ thr[t].pc = "read"
    /\ UNCHANGED <<dbvars, walvars, bufvars, morevars>>
    /\ LET e == thr[t].local
       IN IF thr[t].i >= Retries THEN Leave(t, "none") /\ UNCHANGED entry
          ELSE IF pending_write(e)
          THEN thr' = [thr EXCEPT ![t].i = @ + 1] /\ UNCHANGED entry
          ELSE IF PageEntry_state(e) >= WRITE_LOCK_STATE THEN Reload(t) /\ UNCHANGED entry
          ELSE \E ok \in BOOLEAN :
                  IF CasWeak(e, ok)
                  THEN entry' = set_state(e, PageEntry_state(e) + 1) /\ Leave(t, "read")
                  ELSE Reload(t) /\ UNCHANGED entry

\* MapTable::write_page_entry
WriteStart(t) == Idle(t, "none") /\ Enter(t, "write") /\ UNCHANGED <<entry, dbvars, walvars, bufvars, morevars>>
WriteStep(t) ==
    /\ thr[t].pc = "write"
    /\ UNCHANGED <<dbvars, walvars, bufvars, morevars>>
    /\ LET e == thr[t].local
       IN IF thr[t].i >= Retries THEN Leave(t, "none") /\ UNCHANGED entry
          ELSE IF PageEntry_state(e) = 0
          THEN \E ok \in BOOLEAN :
                  IF CasWeak(e, ok)
                  THEN /\ entry' = set_pending_write(set_state(e, WRITE_LOCK_STATE), FALSE)
                       /\ Leave(t, "write")
                  ELSE Reload(t) /\ UNCHANGED entry
          ELSE IF ~pending_write(e)
          THEN \E ok \in BOOLEAN :
                  /\ entry' = IF CasWeak(e, ok) THEN set_pending_write(e, TRUE) ELSE entry
                  /\ Reload(t)
          ELSE Reload(t) /\ UNCHANGED entry

\* PageReadGuard::upgrade: the read guard is forgotten, not dropped, so
\* the thread still counts as a reader until the exchange succeeds; after
\* the retries the original read guard is handed back
UpgradeStart(t) == Idle(t, "read") /\ Enter(t, "upgrade") /\ UNCHANGED <<entry, dbvars, walvars, bufvars, morevars>>
UpgradeStep(t) ==
    /\ thr[t].pc = "upgrade"
    /\ UNCHANGED <<dbvars, walvars, bufvars, morevars>>
    /\ LET e == thr[t].local
       IN IF thr[t].i >= Retries THEN Leave(t, "read") /\ UNCHANGED entry
          ELSE IF upgrade_ready(e)
          THEN IF entry = e
               THEN entry' = set_state(e, WRITE_LOCK_STATE) /\ Leave(t, "write")
               ELSE Reload(t) /\ UNCHANGED entry
          ELSE Reload(t) /\ UNCHANGED entry

\* Drop for PageReadGuard: loops until the exchange succeeds
DropReadStart(t) == Idle(t, "read") /\ Enter(t, "drop_read") /\ UNCHANGED <<entry, dbvars, walvars, bufvars, morevars>>
DropReadStep(t) ==
    /\ thr[t].pc = "drop_read"
    /\ UNCHANGED <<dbvars, walvars, bufvars, morevars>>
    /\ LET e == thr[t].local
       IN \E ok \in BOOLEAN :
             IF CasWeak(e, ok)
             THEN entry' = set_state(e, PageEntry_state(e) + 65535) /\ Leave(t, "none")
             ELSE thr' = [thr EXCEPT ![t].local = entry] /\ UNCHANGED entry

\* PageWriteGuard::downgrade: a load, then a blind store of state 1
DowngradeLoad(t) == Idle(t, "write") /\ Enter(t, "downgrade") /\ UNCHANGED <<entry, dbvars, walvars, bufvars, morevars>>
DowngradeStore(t) ==
    /\ thr[t].pc = "downgrade"
    /\ UNCHANGED <<dbvars, walvars, bufvars, morevars>>
    /\ entry' = set_state(thr[t].local, 1)
    /\ Leave(t, "read")

\* Drop for PageWriteGuard
DropWriteStart(t) == Idle(t, "write") /\ Enter(t, "drop_write") /\ UNCHANGED <<entry, dbvars, walvars, bufvars, morevars>>
DropWriteStep(t) ==
    /\ thr[t].pc = "drop_write"
    /\ UNCHANGED <<dbvars, walvars, bufvars, morevars>>
    /\ LET e == thr[t].local
       IN \E ok \in BOOLEAN :
             IF CasWeak(e, ok)
             THEN entry' = set_state(e, 0) /\ Leave(t, "none")
             ELSE thr' = [thr EXCEPT ![t].local = entry] /\ UNCHANGED entry

InitLock ==
    /\ InitDbOn([disk |-> (0 :> ZeroPage), wal |-> <<>>, content |-> AllKeys(NoVal)])
    /\ InitWalIdle
    /\ InitBufIdle /\ InitMoreIdle
    /\ entry = [state |-> 0, pending |-> FALSE]
    /\ thr = [t \in Threads |->
                [pc |-> "idle", local |-> [state |-> 0, pending |-> FALSE],
                 i |-> 0, hold |-> "none"]]

NextLock ==
    \E t \in Threads :
       \/ ReadStart(t) \/ ReadStep(t)
       \/ WriteStart(t) \/ WriteStep(t)
       \/ UpgradeStart(t) \/ UpgradeStep(t)
       \/ DropReadStart(t) \/ DropReadStep(t)
       \/ DowngradeLoad(t) \/ DowngradeStore(t)
       \/ DropWriteStart(t) \/ DropWriteStep(t)

SpecLock == InitLock /\ [][NextLock]_vars

ReadGuards == {t \in DOMAIN thr : thr[t].hold = "read"}
WriteGuards == {t \in DOMAIN thr : thr[t].hold = "write"}

\* C6: at most one write guard exists, no read guard exists beside a write
\* guard, and with no write guard the lock state is the number of read
\* guards.
C6_LockExclusion ==
    /\ Cardinality(WriteGuards) <= 1
    /\ WriteGuards # {} => ReadGuards = {}
    /\ WriteGuards = {} => entry.state = Cardinality(ReadGuards)

\* two readers hold the entry while a writer waits with the pending bit set
C6_Witness ==
    /\ Cardinality(ReadGuards) = 2
    /\ entry.pending
    /\ \E t \in DOMAIN thr : thr[t].pc = "write"

(* ============================= SpecSlot =============================== *)
\* The lock word again, with the threads going through the slot of a
\* lock manager as well: PageGuard::ensure_write upgrades the read guard
\* of the slot, and the assignment that stores the write guard drops the
\* value the slot held, the read guard, on the way.

\* PageGuard::ensure_write on a slot that holds a read guard
EnsureWriteStart(t) ==
    Idle(t, "read") /\ Enter(t, "ensure_write") /\ UNCHANGED <<entry, dbvars, walvars, bufvars, morevars>>

\* the loop of PageReadGuard::upgrade inside ensure_write; Err leaves the
\* read guard in the slot
EnsureWriteStep(t) ==
    /\ thr[t].pc = "ensure_write"
    /\ UNCHANGED <<dbvars, walvars, bufvars, morevars>>
    /\ LET e == thr[t].local
       IN IF thr[t].i >= Retries THEN Leave(t, "read") /\ UNCHANGED entry
          ELSE IF upgrade_ready(e)
          THEN IF entry = e
               THEN /\ entry' = set_state(e, WRITE_LOCK_STATE)
                    /\ thr' = [thr EXCEPT ![t].pc = "ensure_assign", ![t].hold = "write"]
               ELSE Reload(t) /\ UNCHANGED entry
          ELSE Reload(t) /\ UNCHANGED entry

\* self.guard_inner = GuardWrapper::Write(write): Drop for PageReadGuard
\* runs on the old value, first its load of the entry
EnsureAssignLoad(t) ==
    /\ thr[t].pc = "ensure_assign"
    /\ thr' = [thr EXCEPT ![t].pc = "ensure_drop", ![t].local = entry]
    /\ UNCHANGED <<entry, dbvars, walvars, bufvars, morevars>>

\* then its loop, which takes one off the lock state
EnsureAssignDrop(t) ==
    /\ thr[t].pc = "ensure_drop"
    /\ UNCHANGED <<dbvars, walvars, bufvars, morevars>>
    /\ LET e == thr[t].local
       IN \E ok \in BOOLEAN :
             IF CasWeak(e, ok)
             THEN entry' = set_state(e, PageEntry_state(e) + 65535) /\ Leave(t, "write")
             ELSE thr' = [thr EXCEPT ![t].local = entry] /\ UNCHANGED entry

MaxSlotThreads == 2
SlotThreads == 1..MaxSlotThreads

InitSlot ==
    /\ InitDbOn([disk |-> (0 :> ZeroPage), wal |-> <<>>, content |-> AllKeys(NoVal)])
    /\ InitWalIdle
    /\ InitBufIdle /\ InitMoreIdle
    /\ entry = [state |-> 0, pending |-> FALSE]
    /\ thr = [t \in SlotThreads |->
                [pc |-> "idle", local |-> [state |-> 0, pending |-> FALSE],
                 i |-> 0, hold |-> "none"]]

NextSlot ==
    \E t \in SlotThreads :
       \/ ReadStart(t) \/ ReadStep(t)
       \/ WriteStart(t) \/ WriteStep(t)
       \/ UpgradeStart(t) \/ UpgradeStep(t)
       \/ DropReadStart(t) \/ DropReadStep(t)
       \/ DowngradeLoad(t) \/ DowngradeStore(t)
       \/ DropWriteStart(t) \/ DropWriteStep(t)
       \/ EnsureWriteStart(t) \/ EnsureWriteStep(t)
       \/ EnsureAssignLoad(t) \/ EnsureAssignDrop(t)

SpecSlot == InitSlot /\ [][NextSlot]_vars

\* the call of t that upgrades its read guard returns with the write guard
UpgradeSucceeds(t) ==
    thr[t].pc \in {"upgrade", "ensure_write"} /\ thr'[t].hold = "write"

\* the call returns PageLockFail
UpgradeFails(t) ==
    thr[t].pc \in {"upgrade", "ensure_write"} /\ thr'[t].pc = "idle"
        /\ thr'[t].hold = "read"

\* C21: an upgrade succeeds only when the caller is the one reader of the
\* entry, and takes the lock state from 1 to WRITE_LOCK_STATE; an upgrade
\* or ensure_write that fails leaves the caller its read guard and the
\* entry as it was
C21_Upgrade ==
    [][\A t \in DOMAIN thr :
          /\ UpgradeSucceeds(t) =>
                /\ ReadGuards = {t} /\ WriteGuards = {}
                /\ entry.state = 1 /\ entry'.state = WRITE_LOCK_STATE
          /\ UpgradeFails(t) =>
                /\ entry' = entry
                /\ t \in ReadGuards /\ entry.state >= 1]_vars

\* C29: a guard that sits in the slot of a lock manager is held on the
\* entry until the slot lets go of it: while a slot has a write guard the
\* entry is write-locked and no other slot has a guard on it
C29_LocksHeld ==
    \A t \in DOMAIN thr :
       (thr[t].pc = "idle" /\ thr[t].hold = "write") =>
           /\ entry.state = WRITE_LOCK_STATE
           /\ \A u \in DOMAIN thr \ {t} : thr[u].hold = "none"

(* ============================= SpecEntry ============================== *)
\* The whole word of a mapping-table entry: the lock half in entry, the
\* NodeRef half (is_leaf bit and address) in noderef.  A thread holding
\* the write guard can repoint the entry with set_mini_page or set_leaf,
\* both of which store a freshly built word over the old one.
RefAddrs == {0, 1}

\* PageEntry::new_write_locked
PageEntry_new_write_locked(index) ==
    [lock |-> set_state([state |-> 0, pending |-> FALSE], WRITE_LOCK_STATE),
     ref |-> [is_leaf |-> FALSE, addr |-> index]]

\* PageEntry::leaf: the address and the is_leaf bit, nothing in the low
\* fifteen bits
PageEntry_leaf(addr) ==
    [lock |-> [state |-> 0, pending |-> FALSE],
     ref |-> [is_leaf |-> TRUE, addr |-> addr]]

\* PageWriteGuard::set_mini_page
SetMiniPage(t, index) ==
    /\ Idle(t, "write")
    /\ LET e == PageEntry_new_write_locked(index)
       IN entry' = e.lock /\ noderef' = e.ref
    /\ thr' = [thr EXCEPT ![t].local = entry']
    /\ UNCHANGED <<dbvars, walvars, bufvars, olcvars, rd>>

\* PageWriteGuard::set_leaf
SetLeaf(t, addr) ==
    /\ Idle(t, "write")
    /\ LET e == PageEntry_leaf(addr)
       IN entry' = e.lock /\ noderef' = e.ref
    /\ thr' = [thr EXCEPT ![t].local = entry']
    /\ UNCHANGED <<dbvars, walvars, bufvars, olcvars, rd>>

NextEntry ==
    \E t \in SlotThreads :
       \/ ReadStart(t) \/ ReadStep(t)
       \/ WriteStart(t) \/ WriteStep(t)
       \/ DropReadStart(t) \/ DropReadStep(t)
       \/ DowngradeLoad(t) \/ DowngradeStore(t)
       \/ DropWriteStart(t) \/ DropWriteStep(t)
       \/ \E a \in RefAddrs : SetMiniPage(t, a) \/ SetLeaf(t, a)

SpecEntry == InitSlot /\ [][NextEntry]_vars

\* a thread holding the write guard repoints the entry
SetsEntry(t) == Idle(t, "write") /\ thr'[t].pc = "idle" /\ noderef' # noderef

\* C28: set_mini_page and set_leaf leave the entry write-locked by the
\* calling guard: the lock state after the call is WRITE_LOCK_STATE, and
\* for as long as a write guard exists it is the only guard of the entry
C28_SetKeepsLock ==
    [][/\ \A t \in DOMAIN thr : SetsEntry(t) => entry'.state = WRITE_LOCK_STATE
       /\ Cardinality(WriteGuards') <= 1
       /\ WriteGuards' # {} => ReadGuards' = {}]_vars

(* ============================== SpecWal =============================== *)
\* The WAL file on its own.  wal_file is the file byte for byte, wal_mem
\* the WalState of the WalManager that has it open.  A call of the
\* WalManager is one step; the file calls it made (set_len, write_all at
\* an offset) are kept in wal_calls, so that the file states the call
\* went through are do_calls over wal_pre of every prefix of wal_calls.
\* The process can be killed between two file calls.
MaxWalOps == 4
MaxWalKills == 1

\* rewrite_records with every record put into one group
rewrite_one_group(records) ==
    IF records = <<>> THEN <<>> ELSE write_group(records[1].page_id, records)

\* the write_all calls of rewrite_records after set_len and seek: one
\* group for every maximal run of records of one page
RECURSIVE rewrite_groups(_)
rewrite_groups(records) ==
    IF records = <<>> THEN <<>>
    ELSE LET page_id == records[1].page_id
             others == {i \in 1..Len(records) : records[i].page_id # page_id}
             end == IF others = {} THEN Len(records) + 1 ELSE Min(others)
         IN write_group(page_id, SubSeq(records, 1, end - 1))
            \o rewrite_groups(SubSeq(records, end, Len(records)))

rewrite_records_calls(records) ==
    <<SetLen(MANIFEST_LEN)>> \o writes_from(MANIFEST_LEN, rewrite_groups(records))

\* WalManager::append_record with its file: seek to the end, one group
file_append_record(mem, file, r) ==
    [mem |-> [mem EXCEPT !.state = append_record(mem.state, r)],
     calls |-> writes_from(Len(file), write_group(r.page_id, <<r>>))]

\* WalManager::checkpoint_page with its file
file_checkpoint_page(mem, page_id) ==
    Let(checkpoint_page(mem.state, page_id), LAMBDA st :
        IF st = mem.state THEN [mem |-> mem, calls |-> <<>>]
        ELSE [mem |-> [mem EXCEPT !.state = st,
                                  !.manifest = MANIFEST_LEN + st.total_bytes],
              calls |-> rewrite_records_calls(st.records)
                        \o <<write_manifest(MANIFEST_LEN + st.total_bytes)>>])

\* WalManager::clear with its file
file_clear(mem) ==
    [mem |-> [mem EXCEPT !.state = clear(mem.state), !.manifest = MANIFEST_LEN],
     calls |-> <<SetLen(MANIFEST_LEN), write_manifest(MANIFEST_LEN)>>]

\* WalManager::open
file_open(file) ==
    Let(read_manifest(file), LAMBDA m :
    Let(read_records(do_calls(file, m.calls)), LAMBDA r :
        LET file_len == Max({Len(file), MANIFEST_LEN})
            pages == {r.records[i].page_id : i \in 1..Len(r.records)}
                     \cup DOMAIN r.page_bytes
        IN [mem |-> [open |-> TRUE,
                     manifest |-> Min({m.checkpoint_len, r.valid_len}),
                     state |->
                       [records |-> r.records,
                        total_records |-> Len(r.records),
                        total_bytes |-> r.valid_len,
                        leaf_counts |->
                          [q \in pages |->
                             [count |-> Cardinality({i \in 1..Len(r.records) :
                                                       r.records[i].page_id = q}),
                              bytes |-> IF q \in DOMAIN r.page_bytes
                                        THEN r.page_bytes[q] ELSE 0]]]],
            calls |-> m.calls
                      \o (IF r.valid_len < file_len THEN <<SetLen(r.valid_len)>> ELSE <<>>)
                      \o (IF m.checkpoint_len > r.valid_len
                          THEN <<write_manifest(r.valid_len)>> ELSE <<>>)]))

\* what the callers of this run hand to append_put, append_tombstone and
\* append_txn_marker
WalValue == [len |-> 1, fill |-> 9]
PutArgs ==
    {WalRecord(0, <<7>>, WalValue, <<0>>, <<255>>, "Redo", 1, "Put"),
     WalRecord(1, <<>>, EmptyVal, <<>>, <<>>, "Undo", 300, "Put")}
TombstoneArgs ==
    {WalRecord(1, <<7, 8>>, EmptyVal, <<>>, <<255>>, "Redo", 300, "Tombstone")}
MarkerArgs == {<<"Begin", "Redo", 1>>, <<"Commit", "Redo", 300>>, <<"Abort", "Undo", 1>>}
WalPages == {0, 1, TXN_META_PAGE_ID}

\* the step a call of the open WalManager makes
WalCall(op, page, appended, r) ==
    /\ wal_file' = do_calls(wal_file, r.calls)
    /\ wal_mem' = r.mem
    /\ wal_pre' = wal_file
    /\ wal_calls' = r.calls
    /\ wal_log' = [wal_log EXCEPT
                     !.op = op, !.page = page, !.before = wal_mem.state.records,
                     !.appended = @ \o appended,
                     !.only_appends = @ /\ op = "append",
                     !.n = @ + 1]
    /\ UNCHANGED <<dbvars, lockvars, bufvars, morevars>>

WalReady == wal_mem.open /\ wal_log.n < MaxWalOps

WalAppendPut(a) ==
    /\ WalReady
    /\ WalCall("append", a.page_id, <<a>>,
               file_append_record(wal_mem, wal_file,
                  append_put(wal_mem.state, a.page_id, a.key, a.value, a.lower_fence,
                             a.upper_fence, a.kind, a.txn_id)
                     .records[Len(wal_mem.state.records) + 1]))

WalAppendTombstone(a) ==
    /\ WalReady
    /\ WalCall("append", a.page_id, <<a>>,
               file_append_record(wal_mem, wal_file,
                  append_tombstone(wal_mem.state, a.page_id, a.key, a.lower_fence,
                                   a.upper_fence, a.kind, a.txn_id)
                     .records[Len(wal_mem.state.records) + 1]))

WalAppendTxnMarker(m) ==
    /\ WalReady
    /\ Let(append_txn_marker(wal_mem.state, m[1], m[2], m[3])
              .records[Len(wal_mem.state.records) + 1], LAMBDA r :
           WalCall("append", r.page_id, <<r>>, file_append_record(wal_mem, wal_file, r)))

WalCheckpointPage(page_id) ==
    /\ WalReady
    /\ WalCall("checkpoint_page", page_id, <<>>, file_checkpoint_page(wal_mem, page_id))

WalClear ==
    /\ WalReady
    /\ WalCall("clear", 0, <<>>, file_clear(wal_mem))

\* the WalManager is dropped and WalManager::open runs over the file
WalReopen ==
    /\ wal_mem.open /\ wal_log.op # "reopen" /\ wal_log.n > 0
    /\ Let(file_open(wal_file), LAMBDA r :
          /\ wal_file' = do_calls(wal_file, r.calls)
          /\ wal_mem' = r.mem
          /\ wal_calls' = r.calls)
    /\ wal_pre' = wal_file
    /\ wal_log' = [wal_log EXCEPT !.op = "reopen", !.before = wal_mem.state.records]
    /\ UNCHANGED <<dbvars, lockvars, bufvars, morevars>>

\* the process is killed after j file calls of the call it is in
WalKill(j) ==
    /\ wal_mem.open /\ wal_log.kills < MaxWalKills
    /\ wal_log.op \in {"append", "checkpoint_page", "clear"}
    /\ wal_file' = do_calls(wal_pre, SubSeq(wal_calls, 1, j))
    /\ wal_mem' = [wal_mem EXCEPT !.open = FALSE]
    /\ wal_log' = [wal_log EXCEPT !.op = "kill", !.killed = TRUE, !.kills = @ + 1,
                                  !.only_appends = FALSE]
    /\ UNCHANGED <<wal_pre, wal_calls, dbvars, lockvars, bufvars, morevars>>

\* WalManager::open over the file the killed process left
WalRecover ==
    /\ ~wal_mem.open /\ wal_log.killed
    /\ Let(file_open(wal_file), LAMBDA r :
          /\ wal_file' = do_calls(wal_file, r.calls)
          /\ wal_mem' = r.mem
          /\ wal_calls' = r.calls)
    /\ wal_pre' = wal_file
    /\ wal_log' = [wal_log EXCEPT !.op = "recover", !.before = wal_mem.state.records]
    /\ UNCHANGED <<dbvars, lockvars, bufvars, morevars>>

\* WalManager::open has run over a path where no file was
InitWal ==
    /\ InitDbOn([disk |-> (0 :> ZeroPage), wal |-> <<>>, content |-> AllKeys(NoVal)])
    /\ InitLockIdle
    /\ InitBufIdle /\ InitMoreIdle
    /\ wal_pre = <<>>
    /\ wal_calls = file_open(<<>>).calls
    /\ wal_file = do_calls(<<>>, wal_calls)
    /\ wal_mem = file_open(<<>>).mem
    /\ wal_log = [op |-> "open", page |-> 0, before |-> <<>>, appended |-> <<>>,
                  only_appends |-> TRUE, killed |-> FALSE, n |-> 0, kills |-> 0]

NextWal ==
    \/ \E a \in PutArgs : WalAppendPut(a)
    \/ \E a \in TombstoneArgs : WalAppendTombstone(a)
    \/ \E m \in MarkerArgs : WalAppendTxnMarker(m)
    \/ \E page_id \in WalPages : WalCheckpointPage(page_id)
    \/ WalClear
    \/ WalReopen
    \/ \E j \in 0..(Len(wal_calls) - 1) : WalKill(j)
    \/ WalRecover

SpecWal == InitWal /\ [][NextWal]_vars

(* ============================== SpecBuf =============================== *)
\* One MiniPageBuffer, as MiniPageBuffer::new leaves it, and threads that
\* call alloc, dealloc and evict on it.  A step of a thread is one access
\* to an atomic of the buffer with the local computation around it.
\* released is kept for the properties: per size class, the slots handed
\* back by dealloc calls that returned, last first.
MaxBufThreads == 2
new_cache_lg == 12
BufThreads == 1..MaxBufThreads

BufIdle ==
    [pc |-> "idle", op |-> "none", size |-> 0, head_index |-> usize_MAX, tail |-> 0,
     i |-> 0, ret |-> usize_MAX, fresh |-> FALSE, expect |-> usize_MAX]

\* nothing was ever allocated from the buffer
IsFresh(b) ==
    b.head = 0 /\ b.tail = 0 /\ \A d \in NodeSizes : b.free_lists[d] = usize_MAX

BufReturned(t, ret) == bthr' = [bthr EXCEPT ![t].pc = "returned", ![t].ret = ret]
BufPanicked(t) == bthr' = [bthr EXCEPT ![t].pc = "panicked"]

\* alloc(size) is called
BufAlloc(t, size) ==
    /\ bthr[t].pc = "idle"
    /\ bthr' = [bthr EXCEPT ![t] =
          [BufIdle EXCEPT !.pc = "pop_load", !.op = "alloc", !.size = size,
                          !.fresh = IsFresh(buf),
                          !.expect = IF released[size] # <<>>
                                        /\ \A u \in BufThreads \ {t} :
                                              bthr[u].pc \in {"idle", "panicked"}
                                     THEN released[size][1] ELSE usize_MAX]]
    /\ UNCHANGED <<buf, released, dbvars, lockvars, walvars, morevars>>

\* pop_freelist: the load of the free-list head
PopFreelistLoad(t) ==
    /\ bthr[t].pc = "pop_load"
    /\ bthr' = [bthr EXCEPT ![t].pc = "pop_loop", ![t].i = 0,
                            ![t].head_index = buf.free_lists[bthr[t].size]]
    /\ UNCHANGED <<buf, released, dbvars, lockvars, walvars, morevars>>

\* pop_freelist: one round of the loop; None sends alloc on to the tail
PopFreelistStep(t, spurious) ==
    /\ bthr[t].pc = "pop_loop"
    /\ LET me == bthr[t]
           next == buffer_word(buf, me.head_index + 1)
       IN IF me.i >= SPIN_RETRIES \/ me.head_index = usize_MAX
          THEN bthr' = [bthr EXCEPT ![t].pc = "tail_load"] /\ UNCHANGED <<buf, released>>
          ELSE IF compare_exchange_weak(buf.free_lists[me.size], me.head_index, spurious)
          THEN /\ buf' = [buf EXCEPT !.free_lists[me.size] = next]
               /\ released' = [released EXCEPT ![me.size] =
                                 SelectSeq(@, LAMBDA x : x # me.head_index)]
               /\ BufReturned(t, me.head_index)
          ELSE /\ bthr' = [bthr EXCEPT ![t].head_index = buf.free_lists[me.size],
                                       ![t].i = me.i + 1]
               /\ UNCHANGED <<buf, released>>
    /\ UNCHANGED <<dbvars, lockvars, walvars, morevars>>

\* alloc: the load of the tail before the loop
AllocLoadTail(t) ==
    /\ bthr[t].pc = "tail_load"
    /\ bthr' = [bthr EXCEPT ![t].pc = "alloc_loop", ![t].i = 0, ![t].tail = buf.tail]
    /\ UNCHANGED <<buf, released, dbvars, lockvars, walvars, morevars>>

\* the tail CAS of alloc, shared by its two branches
AllocCas(t, spurious) ==
    LET me == bthr[t]
    IN IF compare_exchange_weak(buf.tail, me.tail, spurious)
       THEN /\ buf' = [buf EXCEPT !.tail = me.tail + size_in_words(me.size)]
            /\ BufReturned(t, me.tail)
       ELSE /\ bthr' = [bthr EXCEPT ![t].tail = buf.tail, ![t].i = me.i + 1]
            /\ UNCHANGED buf

\* alloc: one round of the loop, from the load of the head
AllocStep(t, spurious) ==
    /\ bthr[t].pc = "alloc_loop"
    /\ LET me == bthr[t]
           head == buf.head
           req_size == size_in_words(me.size)
       IN IF me.i >= SPIN_RETRIES THEN BufReturned(t, usize_MAX) /\ UNCHANGED buf
          ELSE IF head < me.tail
          THEN IF buf.buff_size - me.tail >= req_size THEN AllocCas(t, spurious)
               ELSE BufPanicked(t) /\ UNCHANGED buf
          ELSE IF head - me.tail >= req_size THEN AllocCas(t, spurious)
               ELSE BufReturned(t, usize_MAX) /\ UNCHANGED buf
    /\ UNCHANGED <<released, dbvars, lockvars, walvars, morevars>>

\* dealloc(node): todo!() is reached before anything is done to the buffer
BufDealloc(t) ==
    /\ bthr[t].pc = "idle"
    /\ bthr' = [bthr EXCEPT ![t] = [BufIdle EXCEPT !.pc = "panicked", !.op = "dealloc"]]
    /\ UNCHANGED <<buf, released, dbvars, lockvars, walvars, morevars>>

\* evict: the head is loaded, then NodeMeta::is_being_evicted is todo!()
BufEvict(t) ==
    /\ bthr[t].pc = "idle"
    /\ bthr' = [bthr EXCEPT ![t] = [BufIdle EXCEPT !.pc = "panicked", !.op = "evict",
                                                  !.head_index = buf.head]]
    /\ UNCHANGED <<buf, released, dbvars, lockvars, walvars, morevars>>

\* the caller has its result and is free to call again
BufDone(t) ==
    /\ bthr[t].pc = "returned"
    /\ bthr' = [bthr EXCEPT ![t].pc = "idle"]
    /\ UNCHANGED <<buf, released, dbvars, lockvars, walvars, morevars>>

InitBuf ==
    /\ InitDbOn([disk |-> (0 :> ZeroPage), wal |-> <<>>, content |-> AllKeys(NoVal)])
    /\ InitLockIdle
    /\ InitWalIdle
    /\ buf = MiniPageBuffer_new(new_cache_lg)
    /\ released = [d \in NodeSizes |-> <<>>]
    /\ bthr = [t \in BufThreads |-> BufIdle]
    /\ InitMoreIdle

NextBuf ==
    \E t \in BufThreads :
       \/ \E size \in NodeSizes : BufAlloc(t, size)
       \/ PopFreelistLoad(t)
       \/ \E spurious \in BOOLEAN : PopFreelistStep(t, spurious)
       \/ AllocLoadTail(t)
       \/ \E spurious \in BOOLEAN : AllocStep(t, spurious)
       \/ BufDealloc(t)
       \/ BufEvict(t)
       \/ BufDone(t)

SpecBuf == InitBuf /\ [][NextBuf]_vars

(* ============================== SpecOlc =============================== *)
\* The version words of the inner B+-tree: root_vlock and the vlock of one
\* inner node.  Bit 0 is the obsolete bit, bit 1 the lock bit, the rest
\* the version.  A thread reads a word optimistically (read_root,
\* read_inner), validates (check_or_restart), upgrades its read guard with
\* one compare_exchange_weak, and unlocks by dropping the write guard.
\* InnerReadGuard is Clone and RootReadLock::upgrade borrows, so the
\* version a thread read stays with it after an upgrade; dirty[t] records
\* that a writer took or released the lock since the thread read.
MaxOlcThreads == 2
MaxOlcWrites == 2

OlcThreads == 1..MaxOlcThreads
OlcWords == {"root", "node"}

\* a test that lets a reader in unless the word is obsolete
ignores_lock_bit(version) == version % 2 = 1

is_locked_or_obsolete(version) == version % 4 # 0

OlcIdle == [pc |-> "idle", version |-> 0, dirty |-> FALSE, checked |-> "none"]

\* BPTree::read_root, BPTree::read_inner
OlcRead(t, w) ==
    /\ othr[t][w].pc \in {"idle", "read"}
    /\ othr' = [othr EXCEPT ![t][w] =
                  IF is_locked_or_obsolete(vlock[w])
                  THEN [OlcIdle EXCEPT !.checked = "restart"]
                  ELSE [pc |-> "read", version |-> vlock[w], checked |-> "none",
                        dirty |-> \E u \in DOMAIN othr : othr[u][w].pc = "write"]]
    /\ UNCHANGED <<vlock, dbvars, lockvars, walvars, bufvars, rd, noderef>>

\* RootReadLock::check_or_restart, InnerReadGuard::check_or_restart
OlcCheck(t, w) ==
    /\ othr[t][w].pc = "read"
    /\ othr' = [othr EXCEPT ![t][w].checked =
                  IF othr[t][w].version = vlock[w] THEN "ok" ELSE "restart"]
    /\ UNCHANGED <<vlock, dbvars, lockvars, walvars, bufvars, rd, noderef>>

\* a writer has taken or released the lock of w: every reader of w is told
Touched(t, w, me) ==
    [u \in DOMAIN othr |->
        [x \in DOMAIN othr[u] |->
            IF u = t /\ x = w THEN me
            ELSE IF x = w THEN [othr[u][x] EXCEPT !.dirty = TRUE, !.checked = "none"]
            ELSE othr[u][x]]]

\* RootReadLock::upgrade, InnerReadGuard::upgrade
OlcUpgrade(t, w, spurious) ==
    /\ othr[t][w].pc = "read"
    /\ vlock[w] < 4 * MaxOlcWrites
    /\ IF vlock[w] = othr[t][w].version /\ ~spurious
       THEN /\ vlock' = [vlock EXCEPT ![w] = othr[t][w].version + 2]
            /\ othr' = Touched(t, w, [othr[t][w] EXCEPT !.pc = "write", !.dirty = TRUE,
                                                        !.checked = "none"])
       ELSE /\ othr' = [othr EXCEPT ![t][w] = [OlcIdle EXCEPT !.checked = "restart"]]
            /\ UNCHANGED vlock
    /\ UNCHANGED <<dbvars, lockvars, walvars, bufvars, rd, noderef>>

\* Drop for RootWriteLock, Drop for InnerWriteGuard
OlcDrop(t, w) ==
    /\ othr[t][w].pc = "write"
    /\ vlock' = [vlock EXCEPT ![w] = @ + 2]
    /\ othr' = Touched(t, w, [othr[t][w] EXCEPT !.pc = "read"])
    /\ UNCHANGED <<dbvars, lockvars, walvars, bufvars, rd, noderef>>

InitOlc ==
    /\ InitDbOn([disk |-> (0 :> ZeroPage), wal |-> <<>>, content |-> AllKeys(NoVal)])
    /\ InitLockIdle /\ InitWalIdle /\ InitBufIdle /\ InitRaceIdle /\ InitRefIdle
    /\ vlock = [w \in OlcWords |-> 0]
    /\ othr = [t \in OlcThreads |-> [w \in OlcWords |-> OlcIdle]]

NextOlc ==
    \E t \in OlcThreads, w \in OlcWords :
        \/ OlcRead(t, w)
        \/ OlcCheck(t, w)
        \/ \E spurious \in BOOLEAN : OlcUpgrade(t, w, spurious)
        \/ OlcDrop(t, w)

SpecOlc == InitOlc /\ [][NextOlc]_vars

(* ============================ SpecTraverse ============================ *)
\* The optimistic descent of try_read_traverse_leaf over a tree of two
\* inner levels: root_vlock and the root word, the inner node "node" the
\* root points to, and its child "child", whose entry for the key is a
\* leaf page.  noderef holds what the words point to, rd the position of
\* the descending reader; one writer takes and releases the version locks
\* and stores under them.  A search of a node some writer holds may read
\* any pointer ("wild": an id that names no live node of the slab).
TrWords == {"root", "node", "child"}
TrWriters == {1}
TrPtrs == {"node", "child", "wild"}
TrPages == {0, 1}

TrTree == [root |-> [level |-> 2, node |-> "node"], node |-> "child", child |-> 0]
TrIdle == [pc |-> "idle", parent |-> "root", version |-> 0, level |-> 0,
           ptr |-> "root", cur_version |-> 0, validated |-> TRUE, page |-> 0]

WriteHeld(w) == \E u \in DOMAIN othr : othr[u][w].pc = "write"

\* BPTree::read_root at the start of try_read_traverse_leaf
TrReadRoot ==
    /\ rd.pc \in {"idle", "done"}
    /\ rd' = IF is_locked_or_obsolete(vlock["root"]) THEN TrIdle
             ELSE [TrIdle EXCEPT !.pc = "get_root", !.version = vlock["root"]]
    /\ UNCHANGED <<dbvars, lockvars, walvars, bufvars, olcvars, noderef>>

\* BPTree::get_root: the child pointer of the root level
TrGetRoot ==
    /\ rd.pc = "get_root"
    /\ rd' = [rd EXCEPT !.pc = "read_inner", !.ptr = noderef["root"].node,
                        !.level = noderef["root"].level, !.validated = FALSE]
    /\ UNCHANGED <<dbvars, lockvars, walvars, bufvars, olcvars, noderef>>

\* BPTree::read_inner(child): the slab slot of the child is dereferenced
\* and its version word loaded; a slot that holds no live node gives any
\* word
TrReadInner ==
    /\ rd.pc = "read_inner"
    /\ \E v \in IF rd.ptr \in DOMAIN vlock THEN {vlock[rd.ptr]} ELSE {0, 2} :
          rd' = IF is_locked_or_obsolete(v) THEN TrIdle
                ELSE [rd EXCEPT !.pc = "validate", !.cur_version = v]
    /\ UNCHANGED <<dbvars, lockvars, walvars, bufvars, olcvars, noderef>>

\* unlock_or_restart of the parent: after a child's version was read the
\* child becomes the parent, after the search for the leaf the descent ends
TrValidate ==
    /\ rd.pc \in {"validate", "validate_leaf"}
    /\ rd' = IF rd.version # vlock[rd.parent] THEN TrIdle
             ELSE IF rd.pc = "validate_leaf" THEN [rd EXCEPT !.pc = "done"]
             ELSE [rd EXCEPT !.pc = "search", !.parent = rd.ptr,
                             !.version = rd.cur_version, !.validated = TRUE,
                             !.level = IF rd.parent = "root" THEN @ ELSE @ - 1]
    /\ UNCHANGED <<dbvars, lockvars, walvars, bufvars, olcvars, noderef>>

\* search_for_inner while parent_level > 1, search_for_leaf at level 1
TrSearch ==
    /\ rd.pc = "search"
    /\ IF rd.level > 1
       THEN \E ptr \in IF WriteHeld(rd.parent) THEN TrPtrs ELSE {noderef[rd.parent]} :
               rd' = [rd EXCEPT !.pc = "read_inner", !.ptr = ptr, !.validated = FALSE]
       ELSE \E page \in IF WriteHeld(rd.parent) THEN TrPages ELSE {noderef[rd.parent]} :
               rd' = [rd EXCEPT !.pc = "validate_leaf", !.page = page]
    /\ UNCHANGED <<dbvars, lockvars, walvars, bufvars, olcvars, noderef>>

\* a store under the write lock: RootWriteLock::set_inner swaps the root
\* between the two inner nodes, a write guard of the lowest inner node
\* changes the leaf of the key
TrStore(t, w) ==
    /\ othr[t][w].pc = "write"
    /\ w \in {"root", "child"}
    /\ noderef' = [noderef EXCEPT ![w] =
                     IF w = "child" THEN 1 - @
                     ELSE IF @.level = 2 THEN [level |-> 1, node |-> "child"]
                     ELSE [level |-> 2, node |-> "node"]]
    /\ UNCHANGED <<dbvars, lockvars, walvars, bufvars, olcvars, rd>>

InitTraverse ==
    /\ InitDbOn([disk |-> (0 :> ZeroPage), wal |-> <<>>, content |-> AllKeys(NoVal)])
    /\ InitLockIdle /\ InitWalIdle /\ InitBufIdle
    /\ vlock = [w \in TrWords |-> 0]
    /\ othr = [t \in TrWriters |-> [w \in TrWords |-> OlcIdle]]
    /\ rd = TrIdle
    /\ noderef = TrTree

NextTraverse ==
    \/ TrReadRoot \/ TrGetRoot \/ TrReadInner \/ TrValidate \/ TrSearch
    \/ \E t \in TrWriters, w \in TrWords :
          \/ OlcRead(t, w)
          \/ OlcUpgrade(t, w, FALSE)
          \/ OlcDrop(t, w)
          \/ TrStore(t, w)

SpecTraverse == InitTraverse /\ [][NextTraverse]_vars

(* ============================== SpecNode ============================== *)
\* One inner node of level 1, the parent of leaves, taking the separators
\* of leaf splits.  noderef is the node, rd the last call: its arguments,
\* the node before it, the overflow lock point a traversal returned just
\* before it, and its result.  The node starts with StartCounts entries of
\* the longest key, near the end of its buffer, so that a few inserts
\* fill it.
MaxInserts == 3
StartCounts == {52, 53, 54}
SepLens == {1, 30, MAX_KEY_LENGTH}

SepKey(len, byte) == [i \in 1..len |-> byte]

\* the node after init_leaf_parent and n - 1 inserts at the end
FilledParent(n) ==
    [count |-> n,
     alloc_idx |-> INLINE_BUFFER_LEN - 1 - n * (MAX_KEY_LENGTH + LEAF_CHILD_BYTES),
     lowest |-> 0,
     slots |-> [i \in 1..n |-> [key |-> SepKey(MAX_KEY_LENGTH, i), child |-> i]]]

\* a tree whose root is the inner node
TreeOver(node) ==
    [root |-> [level |-> 1, id |-> 0], next_free |-> 1, nodes |-> (0 :> node)]

\* the children a split may name as the left child: the lowest, the last
\* one, and a page the node does not hold
LeftChildren(node) == {node.lowest, get_leaf_child(node, node.count - 1), 99}

\* read_traverse_leaf, then BPNode::insert_leaf_entry_after_child under
\* the write lock
NodeInsert(left_child, len) ==
    /\ rd.n < MaxInserts
    /\ LET pivot_key == SepKey(len, 200 + rd.n)
           right_child == 100 + rd.n
           res == read_traverse_leaf(TreeOver(noderef), pivot_key)
           r == insert_leaf_entry_after_child(noderef, left_child, pivot_key, right_child)
       IN /\ noderef' = r.node
          /\ rd' = [pc |-> "inserted", n |-> rd.n + 1, before |-> noderef,
                    overflow_point |-> res.overflow_point, err |-> r.err,
                    left_child |-> left_child, pivot_key |-> pivot_key,
                    right_child |-> right_child]
    /\ UNCHANGED <<dbvars, lockvars, walvars, bufvars, olcvars>>

InitNode ==
    /\ InitDbOn([disk |-> (0 :> ZeroPage), wal |-> <<>>, content |-> AllKeys(NoVal)])
    /\ InitLockIdle /\ InitWalIdle /\ InitBufIdle /\ InitOlcIdle
    /\ rd = [pc |-> "idle", n |-> 0]
    /\ noderef \in {FilledParent(n) : n \in StartCounts}

NextNode ==
    \E left_child \in LeftChildren(noderef), len \in SepLens : NodeInsert(left_child, len)

SpecNode == InitNode /\ [][NextNode]_vars

(* ============================ properties ============================== *)
\* the leaves a page id stands for: the mini-page, if it has one, and the
\* disk page behind it
LiveLeaves ==
    UNION {LET node == map_table.entries[p]
           IN IF node.is_leaf THEN {disk[node.addr]}
              ELSE {cache.pages[node.addr]}
                   \cup (IF cache.pages[node.addr].leaf \in DOMAIN disk
                         THEN {disk[cache.pages[node.addr].leaf]} ELSE {})
           : p \in DOMAIN map_table.entries}

UserSlots(n) == {i \in 1..Len(n.slots) : ~n.slots[i].fence}
KeyAt(n, i) == get_node_prefix(n) \o get_stored_key_from_meta(n, n.slots[i])
UserPairs(n) == {<<e.key, e.value>> : e \in {owned_entries(n)[i] : i \in 1..Len(owned_entries(n))}}

FencesHold(n) ==
    /\ record_count(n) >= 2
    /\ n.slots[1].fence
    /\ n.slots[Len(n.slots)].fence
    /\ \A i \in 2..(Len(n.slots) - 1) : ~n.slots[i].fence
    /\ \A i \in UserSlots(n) :
          /\ KeyCmp(fence_bounds(n)[1], KeyAt(n, i)) <= 0
          /\ KeyCmp(KeyAt(n, i), fence_bounds(n)[2]) < 0

ServedAfterFlush(key) ==
    LET page == read_traverse_leaf(tree, key).page
    IN /\ page \in DOMAIN tx.locks
       /\ tx.locks[page].leaf # <<>>
       /\ ~node_ref(World, page).is_leaf
       /\ get_meta_ref(World, page).leaf \in DOMAIN disk
       /\ tx.locks[page].leaf[1] # disk[get_meta_ref(World, page).leaf]
       /\ ~binary_search(get_meta_ref(World, page),
                         strip_prefix(key, get_node_prefix(get_meta_ref(World, page)))).ok

SeqRange(q) == {q[i] : i \in 1..Len(q)}

\* the page a key is routed to by the tree the split or merge left behind,
\* read from the two pages as they were left
RoutedValue(key) ==
    LET page == read_traverse_leaf(event.tree, key).page
    IN IF page = event.left THEN get(event.post_left, key)
       ELSE IF page = event.right THEN get(event.post_right, key)
       ELSE NoVal

\* what get returned for the user keys of a page: nothing for a
\* tombstoned key, the stored value for every other
Expected(n) ==
    {[key |-> get_node_prefix(n) \o e.key_suffix,
      value |-> IF e.meta.typ = "Tombstone" THEN NoVal ELSE e.value]
        : e \in {x \in SeqRange(entries(n)) : ~x.meta.fence}}

MarkerAt(ops, t) ==
    {i \in 1..Len(wal.records) :
        /\ wal.records[i].page_id = TXN_META_PAGE_ID
        /\ wal.records[i].txn_id = t
        /\ wal.records[i].op \in ops}

WrittenPage ==
    IF last'.op = "put" THEN read_traverse_leaf(tree', last'.key).page
    ELSE read_traverse_leaf(tree, last'.key).page

\* every user entry of the mini-page of page p is in its disk leaf
Flushed(p) ==
    \/ map_table'.entries[p].is_leaf
    \/ LET mini == cache'.pages[map_table'.entries[p].addr]
       IN UserPairs(mini) \subseteq UserPairs(disk'[mini.leaf])

stored_checkpoint_len(file) == from_le_bytes(Slice(file, 8, 16))

\* the file after the first j file calls of the last call
FileAfter(j) == do_calls(wal_pre, SubSeq(wal_calls, 1, j))

\* C13: after any sequence of append_put, append_tombstone and
\* append_txn_marker calls, the WalManager that reopens the file holds
\* the appended records, in order and equal field for field
C13_WalRoundTrip ==
    (wal_log.op = "reopen" /\ wal_log.only_appends) =>
        wal_mem.state.records = wal_log.appended

\* a put, a tombstone and a marker, of two transactions, read back
C13_Witness ==
    /\ wal_log.op = "reopen" /\ wal_log.only_appends
    /\ {"Put", "Tombstone"} \subseteq SeqRange([i \in 1..Len(wal_log.appended) |->
                                                   wal_log.appended[i].op])
    /\ {1, 300} \subseteq SeqRange([i \in 1..Len(wal_log.appended) |->
                                       wal_log.appended[i].txn_id])
    /\ \E i \in 1..Len(wal_log.appended) : wal_log.appended[i].page_id = TXN_META_PAGE_ID

\* C14: checkpoint_page(p) leaves in memory the records of the other
\* pages, in their order, and nothing of p; if p had records the file
\* reads back as the same sequence; if p had none neither the memory nor
\* the file changes
C14_CheckpointPage ==
    wal_log.op = "checkpoint_page" =>
        /\ wal_mem.state.records
             = SelectSeq(wal_log.before, LAMBDA r : r.page_id # wal_log.page)
        /\ IF \E i \in 1..Len(wal_log.before) : wal_log.before[i].page_id = wal_log.page
           THEN read_records(wal_file).records = wal_mem.state.records
           ELSE wal_file = wal_pre /\ wal_calls = <<>>

\* records of another page stood before and after the ones removed
C14_Witness ==
    /\ wal_log.op = "checkpoint_page"
    /\ \E i, j, k \in 1..Len(wal_log.before) :
          /\ i < j /\ j < k
          /\ wal_log.before[j].page_id = wal_log.page
          /\ wal_log.before[i].page_id # wal_log.page
          /\ wal_log.before[k].page_id # wal_log.page

\* C15: the checkpoint_len in the manifest is at most the length of the
\* file in every state the file goes through, and append and
\* checkpoint_page never make it smaller
C15_ManifestInvariant ==
    /\ \A j \in 0..Len(wal_calls) :
          Len(FileAfter(j)) >= MANIFEST_LEN =>
             stored_checkpoint_len(FileAfter(j)) <= Len(FileAfter(j))
    /\ wal_log.op \in {"append", "checkpoint_page"} =>
          stored_checkpoint_len(wal_file) >= stored_checkpoint_len(wal_pre)

\* C16: WalManager::open over the file of a killed process cuts the file
\* to the end of its last whole group, holds the records of the whole
\* groups and no other, counts them page by page, and leaves
\* checkpoint_len at the smaller of the stored one and the new length
C16_RecoveryTruncation ==
    wal_log.op = "recover" =>
        /\ Len(wal_file) <= Len(wal_pre)
        /\ Slice(wal_file, MANIFEST_LEN, Len(wal_file))
             = Slice(wal_pre, MANIFEST_LEN, Len(wal_file))
        /\ read_records(wal_file).valid_len = Len(wal_file)
        /\ \A n \in (Len(wal_file) + 1)..Len(wal_pre) :
              read_records(SubSeq(wal_pre, 1, n)).valid_len < n
        /\ wal_mem.state.records = read_records(wal_file).records
        /\ wal_mem.state.total_records = Len(read_records(wal_file).records)
        /\ \A q \in DOMAIN wal_mem.state.leaf_counts :
              wal_mem.state.leaf_counts[q].count
                = Cardinality({i \in 1..Len(read_records(wal_file).records) :
                                 read_records(wal_file).records[i].page_id = q})
        /\ wal_mem.manifest = Min({stored_checkpoint_len(wal_pre), Len(wal_file)})
        /\ stored_checkpoint_len(wal_file) = wal_mem.manifest

\* the records of the pages other than page_id, in their order
OtherPages(records, page_id) == SelectSeq(records, LAMBDA r : r.page_id # page_id)

\* C31: when the process is killed at a step of checkpoint_page(p), the
\* WalManager that opens the file left behind holds every record of the
\* pages other than p (the transaction markers among them) that the WAL
\* held before the call
C31_CheckpointCrash ==
    [][(wal_log.op = "checkpoint_page" /\ wal_log'.op = "kill") =>
          OtherPages(file_open(wal_file').mem.state.records, wal_log.page)
             = OtherPages(wal_log.before, wal_log.page)]_vars

\* read_page_entry ends with PageLockFail: the budget is used up
ReadGivesUp(t) ==
    thr[t].pc = "read" /\ thr'[t].pc = "idle" /\ thr'[t].hold = "none"

\* a round of the loop of read_page_entry with budget left
ReadRound(t) ==
    thr[t].pc = "read" /\ thr[t].i < Retries /\ thr'[t] # thr[t]

EntryFree == ~pending_write(entry) /\ PageEntry_state(entry) < WRITE_LOCK_STATE

\* C32: a spinning reader acquires the read lock as soon as the entry is
\* neither write-locked nor pending: a round of its loop that runs while
\* the entry is free either takes the read lock or reads the entry again,
\* and a reader that returns PageLockFail with a copy of the entry that
\* has the pending bit set does so while the entry is write-locked or
\* pending
C32_ReaderSpins ==
    [][\A t \in DOMAIN thr :
          /\ (ReadRound(t) /\ EntryFree) =>
                 thr'[t].hold = "read" \/ thr'[t].local = entry
          /\ (ReadGivesUp(t) /\ pending_write(thr[t].local)) => ~EntryFree]_vars

\* C33: whenever no thread is executing write_page_entry on the entry,
\* the pending_write bit of the entry is clear
C33_PendingCleared ==
    (\A t \in DOMAIN thr : thr[t].pc # "write") => ~pending_write(entry)

\* C34: in the optimistic descent the step that dereferences the child
\* (reads its version word) is taken only after the parent's version has
\* been validated since the child pointer was computed
C34_ValidateBeforeDeref ==
    [][(rd.pc = "read_inner" /\ rd'.pc # "read_inner") => rd.validated]_vars

\* the pivots and child pointers of an inner node, in slot order
Pivots(node) == <<node.lowest, bp_entries(node)>>

CellAt(n, offset) ==
    IF offset \in DOMAIN n.heap THEN n.heap[offset] ELSE Garbage

\* the records of a page in slot order: key, value and record type
Records(n) ==
    [i \in 1..Len(n.slots) |->
        [key |-> CellAt(n, n.slots[i].offset).key,
         val |-> CellAt(n, n.slots[i].offset).val,
         typ |-> n.slots[i].typ]]

\* the mini pages of the cache
MiniPages ==
    {get_meta_ref(World, page) :
        page \in {q \in DOMAIN map_table.entries : ~map_table.entries[q].is_leaf}}

\* the values that take the free bytes of the page and the bytes of a
\* value it holds
TightVals(n) ==
    {[len |-> find_min_offset(n) + n.slots[i].val_size, fill |-> 1] : i \in 1..Len(n.slots)}

\* NodeMeta::try_put returned InsufficientSpace
Refused(r) == ~r.ok /\ ~r.panic

C37_FailedInsertIntact ==
    (rd.pc = "inserted" /\ rd.err \in {"NodeFull", "ParentChildMissing"})
       => Pivots(noderef) = Pivots(rd.before)

\* the record type of the slot n keeps for key, "Absent" when it keeps none
slot_type(n, key) ==
    Let(binary_search(n, strip_prefix(key, get_node_prefix(n))), LAMBDA found :
        IF found.ok THEN get_kv_meta(n, found.idx).typ ELSE "Absent")

\* what the mini-page n over the disk leaf stands for at key: nothing for
\* a tombstoned key, the value of its slot, and the answer of the disk
\* leaf for a key it has no slot for (PageGuard::get)
mini_page_answer(n, leaf, key) ==
    CASE slot_type(n, key) = "Tombstone" -> NoVal
      [] slot_type(n, key) = "Absent" -> get(leaf, key)
      [] OTHER -> get(n, key)

C18_Witness ==
    \E i \in 1..Len(event.flush) :
        LET f == event.flush[i]
        IN /\ \E k \in Keys : slot_type(f.pre_node, k) = "Tombstone"
           /\ \E k \in Keys : written[k] # Unknown /\ get(f.post_leaf, k) = written[k]

\* the flush f writes to the disk leaf what the call did at key: the value
\* put, or the removal of the key
FlushWritesPut(f, key, val) == get(f.post_leaf, key) = val /\ get(f.pre_leaf, key) # val
FlushWritesDelete(f, key) == get(f.post_leaf, key) = NoVal /\ get(f.pre_leaf, key) # NoVal

\* the WAL holds a redo record of the running transaction for the
\* operation at key
RedoLogged(records, op, key, val) ==
    \E i \in 1..Len(records) :
        /\ records[i].kind = "Redo" /\ records[i].op = op
        /\ records[i].key = key /\ records[i].value = val
        /\ records[i].txn_id = tx.txn_id

C20_FreeListReuse ==
    \A t \in BufThreads :
        (bthr[t].pc = "returned" /\ bthr[t].op = "alloc") =>
            /\ (bthr[t].fresh /\ size_in_words(bthr[t].size) <= buf.buff_size)
                   => bthr[t].ret # usize_MAX
            /\ bthr[t].expect # usize_MAX => bthr[t].ret = bthr[t].expect

C10_Witness ==
    /\ event.kind = "merge"
    /\ owned_entries(event.pre_left) # <<>>
    /\ owned_entries(event.pre_right) # <<>>

PutReturns == nops' = nops + 1 /\ last'.op = "put"

SplitErrors == {"TreeFull", "KeyTooLarge", "ParentChildMissing"}

\* the world the step leaves behind, and get(key) of the transaction in it
WorldAfter ==
    [disk |-> disk', next_addr |-> next_addr', wal |-> wal', cache |-> cache',
     map_table |-> map_table', tree |-> tree', requested |-> requested',
     next_txn_id |-> next_txn_id', tx |-> tx',
     err |-> None, panic |-> FALSE, res |-> FALSE, event |-> NoEvent]
TxLookupAfter(key) == tx_get(WorldAfter, key).val

OlcWriters(w) == {t \in DOMAIN othr : othr[t][w].pc = "write"}

C26_OlcExclusion ==
    [][\A w \in DOMAIN vlock :
          /\ Cardinality(OlcWriters(w)) <= 1
          /\ Cardinality({t \in DOMAIN othr' : othr'[t][w].pc = "write"}) <= 1
          /\ vlock'[w] >= vlock[w]
          /\ (OlcWriters(w) # {}) = (vlock[w] % 4 = 2)
          /\ \A t \in DOMAIN othr :
                /\ (othr[t][w].pc = "write" /\ othr'[t][w].pc # "write") =>
                      /\ vlock'[w] > vlock[w]
                      /\ vlock'[w] > othr[t][w].version
                      /\ ~is_locked_or_obsolete(vlock'[w])
                /\ othr'[t][w].checked = "ok" => ~othr'[t][w].dirty]_vars

C26_Witness ==
    \E w \in DOMAIN vlock, t, u \in DOMAIN othr :
        /\ t # u
        /\ vlock[w] >= 4
        /\ othr[t][w].checked = "ok"
        /\ othr[u][w].checked = "restart"

====
